---------------------------- MODULE Spec2Model ----------------------------
(***************************************************************************)
(* Model of the panel-discussion engine of agents/                         *)
(* panel_discussion_strands_v2.py (class PanelDiscussionStrandsV2) and of  *)
(* its use by the service entrypoint of agents/main.py.                    *)
(*                                                                         *)
(* Texts are sequences of one-character strings, so that the decoders      *)
(* (_parse_vote, _moderator_decide_followup) are computed the way the      *)
(* Python code computes them: split, strip, lower, startswith, "in".       *)
(* Python lists are heap objects: an attribute or a result field holds a   *)
(* reference, and two references may name the same list.                   *)
(***************************************************************************)
EXTENDS Integers, Sequences, FiniteSets, TLC

(***************************************************************************)
(* Bounds of the model.                                                    *)
(***************************************************************************)
\* largest max_rounds argument a caller passes (the smallest is 0)
MaxRoundsArg == 3
\* number of start_discussion invocations in one behaviour
MaxRuns == 2
\* number of completion calls that fail in one behaviour
MaxFailures == 1
\* number of times a handler is preempted inside start_discussion
MaxSwitches == 1

(***************************************************************************)
(* Characters and strings (Python str).                                    *)
(***************************************************************************)
\* the lower-case letter of each upper-case letter
LowerCaseOf ==
    ("A" :> "a") @@ ("B" :> "b") @@ ("C" :> "c") @@ ("D" :> "d")
    @@ ("E" :> "e") @@ ("F" :> "f") @@ ("G" :> "g") @@ ("H" :> "h")
    @@ ("I" :> "i") @@ ("J" :> "j") @@ ("K" :> "k") @@ ("L" :> "l")
    @@ ("M" :> "m") @@ ("N" :> "n") @@ ("O" :> "o") @@ ("P" :> "p")
    @@ ("Q" :> "q") @@ ("R" :> "r") @@ ("S" :> "s") @@ ("T" :> "t")
    @@ ("U" :> "u") @@ ("V" :> "v") @@ ("W" :> "w") @@ ("X" :> "x")
    @@ ("Y" :> "y") @@ ("Z" :> "z")

\* the value of each decimal digit
DigitValueOf ==
    ("0" :> 0) @@ ("1" :> 1) @@ ("2" :> 2) @@ ("3" :> 3) @@ ("4" :> 4)
    @@ ("5" :> 5) @@ ("6" :> 6) @@ ("7" :> 7) @@ ("8" :> 8) @@ ("9" :> 9)

Digits == <<"0","1","2","3","4","5","6","7","8","9">>

\* str.lower() on one character
LowerChar(c) == IF c \in DOMAIN LowerCaseOf THEN LowerCaseOf[c] ELSE c

\* str.lower()
lower(s) == [i \in 1..Len(s) |-> LowerChar(s[i])]

\* the characters str.strip() removes
IsSpace(c) == c \in {" ", "\t", "\n", "\r", "\f"}

\* str.isdigit() on one character
isdigit(c) == c \in DOMAIN DigitValueOf

\* the value of a decimal digit
DigitValue(c) == DigitValueOf[c]

RECURSIVE lstrip(_)
lstrip(s) == IF s # <<>> /\ IsSpace(Head(s)) THEN lstrip(Tail(s)) ELSE s

RECURSIVE rstrip(_)
rstrip(s) ==
    IF s # <<>> /\ IsSpace(s[Len(s)]) THEN rstrip(SubSeq(s, 1, Len(s) - 1)) ELSE s

\* str.strip()
strip(s) == rstrip(lstrip(s))

\* a test that finds the label anywhere in the line, not at its start
startswith_anywhere(s, p) == \E i \in 0..(Len(s) - Len(p)) : SubSeq(s, i + 1, i + Len(p)) = p

\* str.startswith(p)
startswith(s, p) == Len(p) <= Len(s) /\ SubSeq(s, 1, Len(p)) = p

\* Python's "sub in s" on strings (the empty string is in every string)
In(sub, s) ==
    \E i \in 0..(Len(s) - Len(sub)) : SubSeq(s, i + 1, i + Len(sub)) = sub

\* position of the first sep in s, 0 when there is none
RECURSIVE FindChar(_, _, _)
FindChar(s, sep, i) ==
    IF i > Len(s) THEN 0
    ELSE IF s[i] = sep THEN i
    ELSE FindChar(s, sep, i + 1)

\* str.split(sep): the list of the pieces between the separators
RECURSIVE split(_, _)
split(s, sep) ==
    LET k == FindChar(s, sep, 1) IN
    IF k = 0 THEN <<s>>
    ELSE <<SubSeq(s, 1, k - 1)>> \o split(SubSeq(s, k + 1, Len(s)), sep)

\* str.split(sep, 1)[1]: what follows the first separator.  The callers
\* establish with startswith that the separator is there.
AfterFirst(s, sep) == SubSeq(s, FindChar(s, sep, 1) + 1, Len(s))

\* ', '.join(list) and '\n\n'.join(list)
RECURSIVE join(_, _)
join(sep, list) ==
    IF list = <<>> THEN <<>>
    ELSE IF Len(list) = 1 THEN list[1]
    ELSE list[1] \o sep \o join(sep, Tail(list))

\* str(n) for a natural number
RECURSIVE str(_)
str(n) == IF n < 10 THEN <<Digits[n + 1]>> ELSE str(n \div 10) \o <<Digits[(n % 10) + 1]>>

(***************************************************************************)
(* The roster and the agents (PanelDiscussionStrandsV2.__init__).          *)
(***************************************************************************)
\* self.expert_roles, in roster order
expert_roles == <<"Economic Analyst", "Social Welfare Specialist", "Environmental Scientist">>

EconomicAnalystChars ==
    <<"E","c","o","n","o","m","i","c"," ","A","n","a","l","y","s","t">>
SocialWelfareSpecialistChars ==
    <<"S","o","c","i","a","l"," ","W","e","l","f","a","r","e"," ","S",
      "p","e","c","i","a","l","i","s","t">>
EnvironmentalScientistChars ==
    <<"E","n","v","i","r","o","n","m","e","n","t","a","l"," ","S","c",
      "i","e","n","t","i","s","t">>
ModeratorChars == <<"M","o","d","e","r","a","t","o","r">>

\* the characters of a role name (ExpertAgent.role)
RoleChars(role) ==
    CASE role = "Economic Analyst" -> EconomicAnalystChars
      [] role = "Social Welfare Specialist" -> SocialWelfareSpecialistChars
      [] role = "Environmental Scientist" -> EnvironmentalScientistChars
      [] role = "Moderator" -> ModeratorChars

\* self.expert_roles.copy()
RosterCopy == expert_roles

\* "expert in target_experts" on a list
InList(x, list) == \E i \in 1..Len(list) : list[i] = x

(***************************************************************************)
(* ExpertAgent.respond.  The completion self.agent(prompt) either returns  *)
(* a text or raises; outcome is [raises |-> BOOLEAN, text |-> Str].        *)
(* The value is [raised, text]: raised says that respond itself raised     *)
(* into its caller.                                                        *)
(***************************************************************************)
\* f"[Error from {self.role}]"
ErrorSentinel(role) ==
    <<"[","E","r","r","o","r"," ","f","r","o","m"," ">> \o RoleChars(role) \o <<"]">>

\* respond without its try/except: the failure of the completion propagates
respond_propagates(role, outcome) ==
    IF outcome.raises
    THEN [raised |-> TRUE, text |-> <<>>]
    ELSE [raised |-> FALSE, text |-> outcome.text]

respond(role, outcome) ==
    IF outcome.raises
    THEN [raised |-> FALSE, text |-> ErrorSentinel(role)]
    ELSE [raised |-> FALSE, text |-> outcome.text]

(***************************************************************************)
(* Python floats: confidences and scores.  The arithmetic is that of the   *)
(* IEEE 754 doubles the interpreter uses: every operation returns the      *)
(* double nearest to the exact result.  A significand has 53 bits, so it   *)
(* is kept as a natural number in limbs.                                   *)
(***************************************************************************)
\* the bits of a limb, and the base of the limbs
LimbBits == 14
LimbBase == 2^LimbBits
\* the bits of the significand of a float
MantissaBits == 53

\* ---- natural numbers of any size: <<l1, l2, ...>> is l1 + l2 * LimbBase +
\* ..., the last limb not 0; <<>> is 0

\* x without its leading zero limbs
RECURSIVE BNorm(_)
BNorm(x) == IF x # <<>> /\ x[Len(x)] = 0 THEN BNorm(SubSeq(x, 1, Len(x) - 1)) ELSE x

\* the natural number of a small int, and back
RECURSIVE BFromInt(_)
BFromInt(n) == IF n = 0 THEN <<>> ELSE <<n % LimbBase>> \o BFromInt(n \div LimbBase)

RECURSIVE BToInt(_)
BToInt(x) == IF x = <<>> THEN 0 ELSE x[1] + LimbBase * BToInt(Tail(x))

\* the i-th limb of x
Limb(x, i) == IF i <= Len(x) THEN x[i] ELSE 0

RECURSIVE BAddC(_, _, _, _)
BAddC(x, y, i, carry) ==
    IF i > Len(x) /\ i > Len(y)
    THEN IF carry = 0 THEN <<>> ELSE <<carry>>
    ELSE <<(Limb(x, i) + Limb(y, i) + carry) % LimbBase>>
         \o BAddC(x, y, i + 1, (Limb(x, i) + Limb(y, i) + carry) \div LimbBase)

\* x + y
BAdd(x, y) == BAddC(x, y, 1, 0)

RECURSIVE BSubC(_, _, _, _)
BSubC(x, y, i, borrow) ==
    IF i > Len(x) THEN <<>>
    ELSE IF Limb(x, i) - Limb(y, i) - borrow < 0
    THEN <<Limb(x, i) - Limb(y, i) - borrow + LimbBase>> \o BSubC(x, y, i + 1, 1)
    ELSE <<Limb(x, i) - Limb(y, i) - borrow>> \o BSubC(x, y, i + 1, 0)

\* x - y for x >= y
BSub(x, y) == BNorm(BSubC(x, y, 1, 0))

RECURSIVE BCmpAt(_, _, _)
BCmpAt(x, y, i) ==
    IF i = 0 THEN 0
    ELSE IF x[i] < y[i] THEN -1
    ELSE IF x[i] > y[i] THEN 1
    ELSE BCmpAt(x, y, i - 1)

\* -1, 0, 1 as x < y, x = y, x > y
BCmp(x, y) ==
    IF Len(x) < Len(y) THEN -1
    ELSE IF Len(x) > Len(y) THEN 1
    ELSE BCmpAt(x, y, Len(x))

RECURSIVE BMulSmallC(_, _, _, _)
BMulSmallC(x, k, i, carry) ==
    IF i > Len(x)
    THEN IF carry = 0 THEN <<>> ELSE <<carry>>
    ELSE <<(x[i] * k + carry) % LimbBase>>
         \o BMulSmallC(x, k, i + 1, (x[i] * k + carry) \div LimbBase)

\* x * k for 0 <= k < LimbBase
BMulSmall(x, k) == BNorm(BMulSmallC(x, k, 1, 0))

RECURSIVE BMulAcc(_, _, _)
BMulAcc(x, y, i) ==
    IF i > Len(y) THEN <<>>
    ELSE BAdd(BMulSmall(x, y[i]), <<0>> \o BMulAcc(x, y, i + 1))

\* x * y
BMul(x, y) == BNorm(BMulAcc(x, y, 1))

\* x * 2^bits
BShl(x, bits) ==
    IF x = <<>> THEN <<>>
    ELSE [i \in 1..(bits \div LimbBits) |-> 0] \o BMulSmall(x, 2^(bits % LimbBits))

\* x \div 2^bits
BShr(x, bits) ==
    LET y == SubSeq(x, (bits \div LimbBits) + 1, Len(x))
        r == bits % LimbBits
    IN  BNorm([i \in 1..Len(y) |->
                  (y[i] \div 2^r) + (Limb(y, i + 1) % 2^r) * 2^(LimbBits - r)])

\* the number of bits of n and of x
RECURSIVE BitLenInt(_)
BitLenInt(n) == IF n = 0 THEN 0 ELSE 1 + BitLenInt(n \div 2)

BBitLen(x) == IF x = <<>> THEN 0 ELSE LimbBits * (Len(x) - 1) + BitLenInt(x[Len(x)])

\* long division in base LimbBase.  One step brings down a limb and finds
\* the quotient limb: the estimate from the two top limbs is at most 2 too
\* large when the top limb of v is at least LimbBase / 2.
RECURSIVE DivFix(_, _, _, _)
DivFix(r, v, qhat, p) ==
    IF BCmp(p, r) > 0 THEN DivFix(r, v, qhat - 1, BSub(p, v))
    ELSE [q |-> qhat, r |-> BSub(r, p)]

DivEstimate(r, v, qhat) == DivFix(r, v, qhat, BMulSmall(v, qhat))

DivStep(r, v) ==
    IF BCmp(r, v) < 0 THEN [q |-> 0, r |-> r]
    ELSE LET top == Limb(r, Len(v) + 1) * LimbBase + Limb(r, Len(v))
             est == top \div v[Len(v)]
         IN  DivEstimate(r, v, IF est < LimbBase THEN est ELSE LimbBase - 1)

DivPrepend(st, q) == [q |-> <<st.q>> \o q, r |-> st.r]

RECURSIVE DivLoop(_, _, _, _)
DivLoop(u, j, v, acc) ==
    IF j = 0 THEN [q |-> BNorm(acc.q), r |-> acc.r]
    ELSE DivLoop(u, j - 1, v,
                 DivPrepend(DivStep(BNorm(<<u[j]>> \o acc.r), v), acc.q))

\* [q, r] with u = q * v + r and r < v, for v whose top limb is at least
\* LimbBase / 2
BDivMod(u, v) == DivLoop(u, Len(u), v, [q |-> <<>>, r |-> <<>>])
\* ---- floats (IEEE 754 binary64, round to nearest, ties to even), not
\* negative, no overflow or underflow: 0.0 is [m |-> <<>>, e |-> 0], any
\* other float is [m, e] with value m * 2^e and 2^52 <= m < 2^53
FloatZero == [m |-> <<>>, e |-> 0]

\* the float nearest to n * 2^e, ties to even; sticky says that the number
\* rounded is a little more than n * 2^e
RoundToFloat(n, e, sticky) ==
    LET len == BBitLen(n) IN
    IF len = 0 THEN FloatZero
    ELSE IF len <= MantissaBits
    THEN [m |-> BShl(n, MantissaBits - len), e |-> e - (MantissaBits - len)]
    ELSE LET s == len - MantissaBits
             q == BShr(n, s)
             c == BCmp(BSub(n, BShl(q, s)), BShl(<<1>>, s - 1))
             up == c > 0 \/ (c = 0 /\ (sticky \/ q[1] % 2 = 1))
             q1 == IF up THEN BAdd(q, <<1>>) ELSE q
         IN  IF BBitLen(q1) > MantissaBits
             THEN [m |-> BShr(q1, 1), e |-> e + s + 1]
             ELSE [m |-> q1, e |-> e + s]

\* float(n) for an int n >= 0
FromInt(n) == RoundToFloat(BFromInt(n), 0, FALSE)

\* x * y
FMul(x, y) ==
    IF x.m = <<>> \/ y.m = <<>> THEN FloatZero
    ELSE RoundToFloat(BMul(x.m, y.m), x.e + y.e, FALSE)

\* x + y
FAdd(x, y) ==
    IF x.m = <<>> THEN y
    ELSE IF y.m = <<>> THEN x
    ELSE LET e == IF x.e < y.e THEN x.e ELSE y.e IN
         RoundToFloat(BAdd(BShl(x.m, x.e - e), BShl(y.m, y.e - e)), e, FALSE)

\* x / y for y # 0.0; the quotient by a power of 2 is exact
FDiv(x, y) ==
    IF x.m = <<>> THEN FloatZero
    ELSE IF y.m = BShl(<<1>>, MantissaBits - 1)
    THEN [m |-> x.m, e |-> x.e - y.e - (MantissaBits - 1)]
    ELSE LET d == BDivMod(BShl(x.m, MantissaBits + 6), BShl(y.m, 3)) IN
         RoundToFloat(d.q, x.e - y.e - MantissaBits - 3, d.r # <<>>)

\* x >= y
FGeq(x, y) ==
    IF y.m = <<>> THEN TRUE
    ELSE IF x.m = <<>> THEN FALSE
    ELSE IF x.e # y.e THEN x.e > y.e
    ELSE BCmp(x.m, y.m) >= 0

\* int(x)
FloatToInt(x) ==
    IF x.m = <<>> THEN 0
    ELSE IF x.e >= 0 THEN BToInt(BShl(x.m, x.e))
    ELSE BToInt(BShr(x.m, -x.e))

\* min(x, y) and max(x, y)
FMin(x, y) == IF FGeq(x, y) THEN y ELSE x
FMax(x, y) == IF FGeq(x, y) THEN x ELSE y

\* 10 ** k
RECURSIVE Pow10(_)
Pow10(k) == IF k = 0 THEN 1 ELSE 10 * Pow10(k - 1)

\* the number a string of decimal digits denotes
RECURSIVE DigitsValue(_)
DigitsValue(s) ==
    IF s = <<>> THEN 0
    ELSE 10 * DigitsValue(SubSeq(s, 1, Len(s) - 1)) + DigitValue(s[Len(s)])

\* float(s) for s made of digits and periods only: [raises, value].
\* float accepts "85", "8.5", ".5" and "5."; it raises ValueError on "",
\* "." and on a string with two periods.  The value is the float nearest to
\* the decimal number, which is the quotient of two ints that are floats.
float(s) ==
    LET dots == SelectSeq(s, LAMBDA c : c = ".")
        digs == SelectSeq(s, isdigit)
        k == FindChar(s, ".", 1)
        nfrac == IF k = 0 THEN 0 ELSE Len(s) - k
    IN  IF Len(dots) > 1 \/ digs = <<>>
        THEN [raises |-> TRUE, value |-> FloatZero]
        ELSE [raises |-> FALSE,
              value |-> FDiv(FromInt(DigitsValue(digs)), FromInt(Pow10(nfrac)))]

(***************************************************************************)
(* PanelDiscussionStrandsV2._parse_vote                                    *)
(***************************************************************************)
VoteLabel == <<"v","o","t","e",":">>
ConfidenceLabel == <<"c","o","n","f","i","d","e","n","c","e",":">>
ReasoningLabel == <<"r","e","a","s","o","n","i","n","g",":">>
HappyWord == <<"h","a","p","p","y">>
SadWord == <<"s","a","d">>

\* confidence = 0.50
DefaultConfidence == float(<<"0", ".", "5", "0">>).value

\* the division without the clamp to [0, 100]
ClampConfidence_no_clamp(conf_num) == FDiv(conf_num, FromInt(100))

\* min(100.0, max(0.0, conf_num)) / 100.0
ClampConfidence(conf_num) ==
    FDiv(FMin(FromInt(100), FMax(FloatZero, conf_num)), FromInt(100))

\* a pass that looks for the mood words in the text as written, without
\* .lower()
ParseVoteLine_case_sensitive(line, st) ==
    LET line_lower == strip(lower(line)) IN
    IF startswith(line_lower, VoteLabel)
    THEN LET mood_text == strip(AfterFirst(line, ":")) IN
         [st EXCEPT !.mood = IF In(HappyWord, mood_text) THEN "happy"
                              ELSE IF In(SadWord, mood_text) THEN "sad"
                              ELSE "neutral"]
    ELSE IF startswith(line_lower, ConfidenceLabel)
    THEN LET conf_text == strip(AfterFirst(line, ":"))
             conf_num == float(SelectSeq(conf_text, LAMBDA c : isdigit(c) \/ c = "."))
         IN  IF conf_num.raises
             THEN [st EXCEPT !.raised = TRUE]
             ELSE [st EXCEPT !.confidence = ClampConfidence(conf_num.value)]
    ELSE IF startswith(line_lower, ReasoningLabel)
    THEN [st EXCEPT !.reasoning = strip(AfterFirst(line, ":"))]
    ELSE st

\* one pass of "for line in lines" in _parse_vote; st.raised says that the
\* body raised (float's ValueError)
ParseVoteLine(line, st) ==
    LET line_lower == strip(lower(line)) IN
    IF startswith(line_lower, VoteLabel)
    THEN LET mood_text == lower(strip(AfterFirst(line, ":"))) IN
         [st EXCEPT !.mood = IF In(HappyWord, mood_text) THEN "happy"
                              ELSE IF In(SadWord, mood_text) THEN "sad"
                              ELSE "neutral"]
    ELSE IF startswith(line_lower, ConfidenceLabel)
    THEN LET conf_text == strip(AfterFirst(line, ":"))
             conf_num == float(SelectSeq(conf_text, LAMBDA c : isdigit(c) \/ c = "."))
         IN  IF conf_num.raises
             THEN [st EXCEPT !.raised = TRUE]
             ELSE [st EXCEPT !.confidence = ClampConfidence(conf_num.value)]
    ELSE IF startswith(line_lower, ReasoningLabel)
    THEN [st EXCEPT !.reasoning = strip(AfterFirst(line, ":"))]
    ELSE st

\* the for loop of _parse_vote: an exception leaves the loop
RECURSIVE ParseVoteLines(_, _)
ParseVoteLines(lines, st) ==
    IF lines = <<>> \/ st.raised THEN st
    ELSE ParseVoteLines(Tail(lines), ParseVoteLine(Head(lines), st))

_parse_vote(role, response) ==
    LET st0 == [mood |-> "neutral", confidence |-> DefaultConfidence,
                reasoning |-> <<>>, raised |-> FALSE]
        st1 == ParseVoteLines(split(response, "\n"), st0)
        \* except Exception: reasoning = response
        reasoning == IF st1.raised THEN response ELSE st1.reasoning
    IN  [expert_role |-> role,
         vote_mood |-> st1.mood,
         confidence |-> st1.confidence,
         reasoning |-> IF reasoning # <<>> THEN reasoning ELSE response]

(***************************************************************************)
(* The decoding part of PanelDiscussionStrandsV2._moderator_decide_followup*)
(***************************************************************************)
ContinueLabel == <<"c","o","n","t","i","n","u","e",":">>
TargetExpertsLabel == <<"t","a","r","g","e","t"," ","e","x","p","e","r","t","s",":">>
ReasonLabel == <<"r","e","a","s","o","n",":">>
YesWord == <<"y","e","s">>
NoneWord == <<"n","o","n","e">>
AllWord == <<"a","l","l">>

\* [e.strip() for e in experts_text.split(',')]
MentionedExperts(experts_text) ==
    LET parts == split(experts_text, ",") IN [i \in 1..Len(parts) |-> strip(parts[i])]

\* the test of the inner loop: mentioned in expert or expert in mentioned
Mentions(mentioned, expert) ==
    \/ In(lower(mentioned), lower(RoleChars(expert)))
    \/ In(lower(RoleChars(expert)), lower(mentioned))

\* the loops the other way round: for each mention, the roles it names
RECURSIVE MatchExperts_mention_order(_, _, _)
MatchExperts_mention_order(i, mentioned_experts, target_experts) ==
    IF i > Len(mentioned_experts) THEN target_experts
    ELSE MatchExperts_mention_order(i + 1, mentioned_experts,
             target_experts \o
             SelectSeq(expert_roles,
                       LAMBDA expert : /\ Mentions(mentioned_experts[i], expert)
                                       /\ ~InList(expert, target_experts)))

\* "for expert in self.expert_roles: for mentioned in ...: append, break"
RECURSIVE MatchExperts(_, _, _)
MatchExperts(i, mentioned_experts, target_experts) ==
    IF i > Len(expert_roles) THEN target_experts
    ELSE LET expert == expert_roles[i]
             hit == \E j \in 1..Len(mentioned_experts) :
                        Mentions(mentioned_experts[j], expert)
         IN  MatchExperts(i + 1, mentioned_experts,
                 IF hit /\ ~InList(expert, target_experts)
                 THEN Append(target_experts, expert)
                 ELSE target_experts)

\* one pass of "for line in lines" in _moderator_decide_followup
DecideLine(line, st) ==
    LET line_lower == strip(lower(line)) IN
    IF startswith(line_lower, ContinueLabel)
    THEN LET continue_text == lower(strip(AfterFirst(line, ":"))) IN
         [st EXCEPT !.should_continue = In(YesWord, continue_text)]
    ELSE IF startswith(line_lower, TargetExpertsLabel)
    THEN LET experts_text == strip(AfterFirst(line, ":")) IN
         IF In(NoneWord, lower(experts_text))
         THEN [st EXCEPT !.should_continue = FALSE, !.target_experts = <<>>]
         ELSE IF In(AllWord, lower(experts_text))
         THEN [st EXCEPT !.target_experts = RosterCopy]
         ELSE [st EXCEPT !.target_experts =
                   MatchExperts(1, MentionedExperts(experts_text), st.target_experts)]
    ELSE st

RECURSIVE DecideLines(_, _)
DecideLines(lines, st) ==
    IF lines = <<>> THEN st
    ELSE DecideLines(Tail(lines), DecideLine(Head(lines), st))

\* a decoder without the startswith tests and without the try/except: it
\* takes line.split(':')[1] of every line, and the IndexError of a line
\* without a colon leaves it
DecodeFollowup_unguarded(response) ==
    LET lines == split(response, "\n") IN
    [DecideLines(lines, [should_continue |-> FALSE, target_experts |-> <<>>,
                         raised |-> FALSE])
        EXCEPT !.raised = \E i \in 1..Len(lines) : FindChar(lines[i], ":", 1) = 0]

\* a decoder that starts from the fail-open default: continue with the
\* whole roster
DecodeFollowup_fail_open(response) ==
    DecideLines(split(response, "\n"),
                [should_continue |-> TRUE, target_experts |-> RosterCopy,
                 raised |-> FALSE])

\* the decision decoded from the moderator's response (lines 361-406);
\* raised says that an exception left the decoder.  No step of the loop
\* raises on a str (split, lower, strip, startswith, in, append, and
\* split(':', 1)[1] after startswith found the colon), so the handler of
\* lines 397-401 is not entered and nothing leaves the try.
DecodeFollowup(response) ==
    DecideLines(split(response, "\n"),
                [should_continue |-> FALSE, target_experts |-> <<>>,
                 raised |-> FALSE])

(***************************************************************************)
(* PanelDiscussionStrandsV2._calculate_final_mood                          *)
(***************************************************************************)
\* mood_values = {'happy': 100, 'neutral': 50, 'sad': 0}
mood_values(mood) ==
    CASE mood = "happy" -> 100
      [] mood = "neutral" -> 50
      [] mood = "sad" -> 0

RECURSIVE SumVotes(_, _, _)
SumVotes(votes, i, acc) ==
    IF i > Len(votes) THEN acc
    ELSE SumVotes(votes, i + 1,
             [total_score |-> FAdd(acc.total_score,
                                   FMul(FromInt(mood_values(votes[i].vote_mood)),
                                        votes[i].confidence)),
              total_weight |-> FAdd(acc.total_weight, votes[i].confidence)])

\* the aggregation without the test of total_weight: the quotient of two
\* zeros stands for the ZeroDivisionError
_calculate_final_mood_no_fallback(votes) ==
    LET tot == SumVotes(votes, 1, [total_score |-> FloatZero, total_weight |-> FloatZero])
        final_score == FDiv(tot.total_score, tot.total_weight)
    IN  [final_mood |-> IF FGeq(final_score, FromInt(67)) THEN "happy"
                        ELSE IF FGeq(final_score, FromInt(34)) THEN "neutral"
                        ELSE "sad",
         final_score |-> final_score]

\* the thresholds taken as strict: > 67 and > 34
_calculate_final_mood_strict(votes) ==
    LET tot == SumVotes(votes, 1, [total_score |-> FloatZero, total_weight |-> FloatZero]) IN
    IF tot.total_weight = FloatZero
    THEN [final_mood |-> "neutral", final_score |-> FromInt(50)]
    ELSE LET final_score == FDiv(tot.total_score, tot.total_weight) IN
         [final_mood |-> IF ~FGeq(FromInt(67), final_score) THEN "happy"
                         ELSE IF ~FGeq(FromInt(34), final_score) THEN "neutral"
                         ELSE "sad",
          final_score |-> final_score]

_calculate_final_mood(votes) ==
    LET tot == SumVotes(votes, 1, [total_score |-> FloatZero, total_weight |-> FloatZero]) IN
    IF tot.total_weight = FloatZero
    THEN [final_mood |-> "neutral", final_score |-> FromInt(50)]
    ELSE LET final_score == FDiv(tot.total_score, tot.total_weight) IN
         [final_mood |-> IF FGeq(final_score, FromInt(67)) THEN "happy"
                         ELSE IF FGeq(final_score, FromInt(34)) THEN "neutral"
                         ELSE "sad",
          final_score |-> final_score]

(***************************************************************************)
(* The state.                                                              *)
(*                                                                         *)
(* transcripts, analyses, turn_order are the attributes of the one         *)
(* PanelDiscussionStrandsV2 instance (main.py's module-level panel);       *)
(* transcripts and analyses hold references into heap.  pc, frame and      *)
(* result belong to the callers of start_discussion (the request handlers  *)
(* of main.py): the position in start_discussion, its local variables and  *)
(* the PanelResult the caller got back (<<>> when it has none).            *)
(* call is the last respond call of the caller: the role asked, the recent *)
(* discussion its prompt held and the text respond returned.               *)
(* nruns counts the invocations and names them: the turns and analyses     *)
(* carry in the field run the invocation that appended them, and           *)
(* frame[t].decisions lists the should_continue values the call got.       *)
(* completions is the behaviour of the completion capability: the texts it *)
(* may return to each kind of prompt and whether it may raise; failures    *)
(* counts the completion calls that raised.  active is the handler that    *)
(* ran last and switches counts the preemptions.                           *)
(***************************************************************************)
VARIABLES transcripts, analyses, turn_order, heap, nruns, completions, failures,
          pc, frame, result, call, active, switches

vars == <<transcripts, analyses, turn_order, heap, nruns, completions, failures,
          pc, frame, result, call, active, switches>>

\* the request handlers that may call panel.start_discussion
Callers == {1, 2}

\* Optional[int] round_number: None
NoRound == -1

\* the list objects: those of __init__ and those each invocation allocates
TranscriptsOf(k) == 2 * k
AnalysesOf(k) == 2 * k + 1
ObjIds == 0..(2 * MaxRuns + 1)

\* request.get('country_code'): each handler asks about its own country
RequestCountry(t) == IF t = 1 THEN <<"J","P">> ELSE <<"U","S">>

\* the texts a completion returns when it does not raise
Completion == <<"o","k">>
VoteHappy85 ==
    <<"V","o","t","e",":"," ","H","a","p","p","y","\n","C","o","n","f",
      "i","d","e","n","c","e",":"," ","8","5","\n","R","e","a","s","o",
      "n","i","n","g",":"," ","o","k">>
VoteSad40 ==
    <<"V","o","t","e",":"," ","S","a","d","\n","C","o","n","f","i","d",
      "e","n","c","e",":"," ","4","0","\n","R","e","a","s","o","n","i",
      "n","g",":"," ","n","o">>
RouteAll ==
    <<"C","o","n","t","i","n","u","e",":"," ","Y","e","s","\n","T","a",
      "r","g","e","t"," ","E","x","p","e","r","t","s",":"," ","A","l",
      "l">>
RouteNone ==
    <<"C","o","n","t","i","n","u","e",":"," ","N","o","\n","T","a","r",
      "g","e","t"," ","E","x","p","e","r","t","s",":"," ","N","o","n",
      "e">>
RouteTwo ==
    <<"C","o","n","t","i","n","u","e",":"," ","Y","e","s","\n","T","a",
      "r","g","e","t"," ","E","x","p","e","r","t","s",":"," ","e","c",
      "o","n","o","m","i","c",","," ","e","n","v","i","r","o","n","m",
      "e","n","t","a","l">>
RouteBare == <<"C","o","n","t","i","n","u","e",":"," ","Y","e","s">>

(***************************************************************************)
(* The replies the decoders are given.  A vote in the format of the voting *)
(* prompt (lines 484-494) has the lines "Vote: m", "Confidence: c",        *)
(* "Reasoning: r"; the other texts are replies a language model may give   *)
(* instead.                                                                *)
(***************************************************************************)
\* Vote: [Happy/Neutral/Sad]
MoodNames ==
    {<<"H","a","p","p","y">>, <<"N","e","u","t","r","a","l">>,
     <<"S","a","d">>}

\* Confidence: [0-100]
Percents == 0..100

\* Reasoning: [1-2 sentences ...]: a sentence, nothing, a sentence with
\* spaces around it, a sentence with a colon
ReasoningTexts ==
    {<<"s","t","r","o","n","g"," ","g","r","o","w","t","h">>,
     <<>>,
     <<" ","o","k"," ">>,
     <<"a",":"," ","b">>}

\* the words that open the three lines
VotePrefix == <<"V","o","t","e",":"," ">>
ConfidencePrefix ==
    <<"C","o","n","f","i","d","e","n","c","e",":"," ">>
ReasoningPrefix ==
    <<"R","e","a","s","o","n","i","n","g",":"," ">>

\* the three lines of a vote in the format of the prompt
WellFormedVote(m, c, r) ==
    join(<<"\n">>, <<VotePrefix \o m, ConfidencePrefix \o str(c),
                    ReasoningPrefix \o r>>)

WellFormedVotes ==
    {WellFormedVote(m, c, r) : m \in MoodNames, c \in Percents, r \in ReasoningTexts}

\* voting replies that are not in the format of the prompt
VoteAbove100 ==
    <<"C","o","n","f","i","d","e","n","c","e",":"," ","1","5","0">>

OtherVotes ==
    {
     \* ''
     <<>>,
     \* 'I vote happy'
     <<"I"," ","v","o","t","e"," ","h","a","p","p","y">>,
     \* 'Votes: happy'
     <<"V","o","t","e","s",":"," ","h","a","p","p","y">>,
     \* 'vote : sad'
     <<"v","o","t","e"," ",":"," ","s","a","d">>,
     \* 'My vote: happy\nabout 85 percent'
     <<"M","y"," ","v","o","t","e",":"," ","h","a","p","p","y","\n","a","b",
       "o","u","t"," ","8","5"," ","p","e","r","c","e","n","t">>,
     \* 'VOTE: SAD\nCONFIDENCE: 85%'
     <<"V","O","T","E",":"," ","S","A","D","\n","C","O","N","F","I","D","E",
       "N","C","E",":"," ","8","5","%">>,
     \* 'Vote: Happy\nReasoning: ok'
     <<"V","o","t","e",":"," ","H","a","p","p","y","\n","R","e","a","s","o",
       "n","i","n","g",":"," ","o","k">>,
     \* 'Confidence: high'
     <<"C","o","n","f","i","d","e","n","c","e",":"," ","h","i","g","h">>,
     \* 'Vote: Happy\nConfidence: high\nReasoning: ok'
     <<"V","o","t","e",":"," ","H","a","p","p","y","\n","C","o","n","f","i",
       "d","e","n","c","e",":"," ","h","i","g","h","\n","R","e","a","s","o",
       "n","i","n","g",":"," ","o","k">>,
     \* 'Confidence: high\nVote: Happy\nReasoning: ok'
     <<"C","o","n","f","i","d","e","n","c","e",":"," ","h","i","g","h","\n",
       "V","o","t","e",":"," ","H","a","p","p","y","\n","R","e","a","s","o",
       "n","i","n","g",":"," ","o","k">>,
     \* 'Reasoning: ok\nConfidence:\nVote: Sad'
     <<"R","e","a","s","o","n","i","n","g",":"," ","o","k","\n","C","o","n",
       "f","i","d","e","n","c","e",":","\n","V","o","t","e",":"," ","S","a",
       "d">>,
     \* 'Vote: Sad\nConfidence: 8.5.1'
     <<"V","o","t","e",":"," ","S","a","d","\n","C","o","n","f","i","d","e",
       "n","c","e",":"," ","8",".","5",".","1">>,
     \* 'Confidence: 80\nConfidence: .'
     <<"C","o","n","f","i","d","e","n","c","e",":"," ","8","0","\n","C","o",
       "n","f","i","d","e","n","c","e",":"," ",".">>,
     \* 'Confidence: -5'
     <<"C","o","n","f","i","d","e","n","c","e",":"," ","-","5">>,
     \* 'Confidence: 0.85'
     <<"C","o","n","f","i","d","e","n","c","e",":"," ","0",".","8","5">>,
     VoteAbove100,
     \* 'Confidence: 8.5'
     <<"C","o","n","f","i","d","e","n","c","e",":"," ","8",".","5">>,
     \* 'Confidence: about 70 percent'
     <<"C","o","n","f","i","d","e","n","c","e",":"," ","a","b","o","u","t",
       " ","7","0"," ","p","e","r","c","e","n","t">>,
     \* 'Confidence: 7/10'
     <<"C","o","n","f","i","d","e","n","c","e",":"," ","7","/","1","0">>,
     \* 'Confidence: .5'
     <<"C","o","n","f","i","d","e","n","c","e",":"," ",".","5">>,
     \* 'Confidence: 5.'
     <<"C","o","n","f","i","d","e","n","c","e",":"," ","5",".">>,
     \* 'Confidence: 30\nConfidence: 60'
     <<"C","o","n","f","i","d","e","n","c","e",":"," ","3","0","\n","C","o",
       "n","f","i","d","e","n","c","e",":"," ","6","0">>}

\* routing replies: the lines of the format of the prompt (lines 354-357)
\* in either order, with other values, in other letter case, or missing
RouteMentionedTwice ==
    <<"C","o","n","t","i","n","u","e",":"," ","Y","e","s","\n","T","a","r",
      "g","e","t"," ","E","x","p","e","r","t","s",":"," ","a","n","a","l",
      "y","s","t",","," ","s","o","c","i","a","l",","," ","e","c","o","n",
      "o","m","i","c"," ","a","n","a","l","y","s","t">>

RouteProse ==
    <<"W","e"," ","s","h","o","u","l","d"," ","h","e","a","r"," ","m","o",
      "r","e"," ","f","r","o","m"," ","e","v","e","r","y","o","n","e">>

RouteTexts ==
    {
     RouteAll,
     RouteNone,
     RouteTwo,
     RouteBare,
     \* 'Target Experts: None\nContinue: Yes'
     <<"T","a","r","g","e","t"," ","E","x","p","e","r","t","s",":"," ","N",
       "o","n","e","\n","C","o","n","t","i","n","u","e",":"," ","Y","e","s">>,
     \* 'Continue: Yes\nTarget Experts: None'
     <<"C","o","n","t","i","n","u","e",":"," ","Y","e","s","\n","T","a","r",
       "g","e","t"," ","E","x","p","e","r","t","s",":"," ","N","o","n","e">>,
     \* 'Continue: No\nTarget Experts: None\nReason: consensus reached'
     <<"C","o","n","t","i","n","u","e",":"," ","N","o","\n","T","a","r","g",
       "e","t"," ","E","x","p","e","r","t","s",":"," ","N","o","n","e","\n",
       "R","e","a","s","o","n",":"," ","c","o","n","s","e","n","s","u","s",
       " ","r","e","a","c","h","e","d">>,
     \* 'Continue: Yes\nTarget Experts: none, or the economic analyst'
     <<"C","o","n","t","i","n","u","e",":"," ","Y","e","s","\n","T","a","r",
       "g","e","t"," ","E","x","p","e","r","t","s",":"," ","n","o","n","e",
       ","," ","o","r"," ","t","h","e"," ","e","c","o","n","o","m","i","c",
       " ","a","n","a","l","y","s","t">>,
     \* 'Continue: Yes\nTarget Experts: environmental, economic'
     <<"C","o","n","t","i","n","u","e",":"," ","Y","e","s","\n","T","a","r",
       "g","e","t"," ","E","x","p","e","r","t","s",":"," ","e","n","v","i",
       "r","o","n","m","e","n","t","a","l",","," ","e","c","o","n","o","m",
       "i","c">>,
     RouteMentionedTwice,
     \* 'Continue: Yes\nTarget Experts: Social'
     <<"C","o","n","t","i","n","u","e",":"," ","Y","e","s","\n","T","a","r",
       "g","e","t"," ","E","x","p","e","r","t","s",":"," ","S","o","c","i",
       "a","l">>,
     \* 'Continue: Yes\nTarget Experts: the Economic Analyst please'
     <<"C","o","n","t","i","n","u","e",":"," ","Y","e","s","\n","T","a","r",
       "g","e","t"," ","E","x","p","e","r","t","s",":"," ","t","h","e"," ",
       "E","c","o","n","o","m","i","c"," ","A","n","a","l","y","s","t"," ",
       "p","l","e","a","s","e">>,
     \* 'Continue: Yes\nTarget Experts:'
     <<"C","o","n","t","i","n","u","e",":"," ","Y","e","s","\n","T","a","r",
       "g","e","t"," ","E","x","p","e","r","t","s",":">>,
     \* 'Continue: Yes\nTarget Experts: nobody'
     <<"C","o","n","t","i","n","u","e",":"," ","Y","e","s","\n","T","a","r",
       "g","e","t"," ","E","x","p","e","r","t","s",":"," ","n","o","b","o",
       "d","y">>,
     \* 'Continue: Yes\nTarget Experts: environmental\nTarget Experts: economic'
     <<"C","o","n","t","i","n","u","e",":"," ","Y","e","s","\n","T","a","r",
       "g","e","t"," ","E","x","p","e","r","t","s",":"," ","e","n","v","i",
       "r","o","n","m","e","n","t","a","l","\n","T","a","r","g","e","t"," ",
       "E","x","p","e","r","t","s",":"," ","e","c","o","n","o","m","i","c">>,
     \* 'continue: YES!\ntarget experts: ALL'
     <<"c","o","n","t","i","n","u","e",":"," ","Y","E","S","!","\n","t","a",
       "r","g","e","t"," ","e","x","p","e","r","t","s",":"," ","A","L","L">>,
     \* 'Continue: No\nTarget Experts: All'
     <<"C","o","n","t","i","n","u","e",":"," ","N","o","\n","T","a","r","g",
       "e","t"," ","E","x","p","e","r","t","s",":"," ","A","l","l">>,
     RouteProse,
     \* 'Target Experts: Economic Analyst'
     <<"T","a","r","g","e","t"," ","E","x","p","e","r","t","s",":"," ","E",
       "c","o","n","o","m","i","c"," ","A","n","a","l","y","s","t">>,
     \* ''
     <<>>}

\* votes in the format of the prompt whose weighted means fall on the
\* thresholds of the scoring and next to them, and votes of confidence 0
BoundaryVotes ==
    {WellFormedVote(v[1], v[2], <<"o","k">>) :
        v \in {<<<<"H","a","p","p","y">>, 34>>, <<<<"H","a","p","p","y">>, 0>>,
               <<<<"N","e","u","t","r","a","l">>, 66>>,
               <<<<"N","e","u","t","r","a","l">>, 55>>,
               <<<<"N","e","u","t","r","a","l">>, 11>>,
               <<<<"S","a","d">>, 66>>, <<<<"S","a","d">>, 55>>,
               <<<<"S","a","d">>, 11>>}}

\* the capabilities that give one text to every voting prompt or one text to
\* every routing prompt, one that gives each voter any of the boundary
\* votes, and one that gives the usual texts and may fail
DecoderCompletions ==
    {[text |-> {Completion}, vote |-> {v}, route |-> {RouteNone},
      raising |-> FALSE] : v \in WellFormedVotes \cup OtherVotes}
    \cup {[text |-> {Completion}, vote |-> {VoteHappy85}, route |-> {r},
           raising |-> FALSE] : r \in RouteTexts}
    \cup {[text |-> {Completion}, vote |-> {VoteHappy85}, route |-> {RouteNone},
           raising |-> TRUE]}
    \cup {[text |-> {Completion}, vote |-> BoundaryVotes, route |-> {RouteNone},
           raising |-> FALSE]}

\* a capability that answers in many ways and may fail
AnyCompletions ==
    [text |-> {Completion},
     vote |-> {VoteHappy85, VoteSad40},
     route |-> {RouteAll, RouteNone, RouteTwo, RouteBare},
     raising |-> TRUE]

\* a capability that never fails and answers in few ways
FewCompletions ==
    [text |-> {Completion},
     vote |-> {VoteHappy85},
     route |-> {RouteNone, RouteTwo},
     raising |-> FALSE]

\* what self.agent(prompt) may do: return one of texts, or raise
Outcomes(texts) ==
    {[raises |-> FALSE, text |-> x] : x \in texts}
    \cup (IF completions.raising /\ failures < MaxFailures
          THEN {[raises |-> TRUE, text |-> <<>>]} ELSE {})

Failed(outcome) == failures' = failures + (IF outcome.raises THEN 1 ELSE 0)

NoFrame ==
    [run |-> 0, country_code |-> <<>>, max_rounds |-> 0, round_num |-> 0,
     should_continue |-> FALSE, target_experts |-> <<>>, decisions |-> <<>>,
     idx |-> 0,
     introduction |-> <<>>, moderator_question |-> <<>>, actual_rounds |-> 0,
     votes |-> <<>>, recent_discussion |-> <<>>,
     final_mood |-> "", final_score |-> FloatZero]

NoCall == [to |-> "", recent |-> <<>>, reply |-> <<>>]

\* lines 84-140: the instance after __init__, with the capability given
Constructed(capability) ==
    /\ transcripts = TranscriptsOf(0)
    /\ analyses = AnalysesOf(0)
    /\ turn_order = 0
    /\ heap = [o \in ObjIds |-> <<>>]
    /\ nruns = 0
    /\ completions = capability
    /\ failures = 0
    /\ pc = [t \in Callers |-> "idle"]
    /\ frame = [t \in Callers |-> NoFrame]
    /\ result = [t \in Callers |-> <<>>]
    /\ call = [t \in Callers |-> NoCall]
    /\ active = 0
    /\ switches = 0

Init == Constructed(AnyCompletions)

SeqInit == Constructed(FewCompletions)

(***************************************************************************)
(* PanelDiscussionStrandsV2._add_transcript and _get_recent_discussion     *)
(***************************************************************************)
\* _add_transcript building the Transcript before it increments the counter
_add_transcript_stale_order(h, ref, order, run, speaker, content, round_number) ==
    [heap |-> [h EXCEPT ![ref] = Append(@, [speaker |-> speaker,
                                             content |-> content,
                                             round_number |-> round_number,
                                             turn_order |-> order,
                                             run |-> run])],
     turn_order |-> order + 1]

\* self.turn_order += 1; self.transcripts.append(Transcript(...)): the new
\* heap and turn counter.  h, ref, order are the heap, self.transcripts and
\* self.turn_order the call finds.
_add_transcript(h, ref, order, run, speaker, content, round_number) ==
    [heap |-> [h EXCEPT ![ref] = Append(@, [speaker |-> speaker,
                                             content |-> content,
                                             round_number |-> round_number,
                                             turn_order |-> order + 1,
                                             run |-> run])],
     turn_order |-> order + 1]

\* an expert turn that keeps no ExpertAnalysis
AppendAnalysis_nothing(h, ref, run, role, analysis_text, round_number) == h

\* self.analyses.append(ExpertAnalysis(...))
AppendAnalysis(h, ref, run, role, analysis_text, round_number) ==
    [h EXCEPT ![ref] = Append(@, [expert_role |-> role,
                                  analysis_text |-> analysis_text,
                                  round_number |-> round_number,
                                  run |-> run])]

\* self.transcripts[-num_turns:] if len(self.transcripts) > num_turns
\* else self.transcripts
RecentTurns(list, num_turns) ==
    IF Len(list) > num_turns
    THEN SubSeq(list, Len(list) - num_turns + 1, Len(list))
    ELSE list

_get_recent_discussion(list, num_turns) ==
    LET recent == RecentTurns(list, num_turns) IN
    join(<<"\n", "\n">>,
         [i \in 1..Len(recent) |->
             RoleChars(recent[i].speaker) \o <<":", " ">> \o recent[i].content])

(***************************************************************************)
(* start_discussion, one action per step of its control flow.  An action   *)
(* holds the code from one completion call to the next.                    *)
(***************************************************************************)
\* a handler that is not inside start_discussion
Outside(t) == pc[t] \in {"idle", "done", "raised"}

\* handler t runs next; it preempts the handler that ran last when that one
\* is inside start_discussion
Scheduled(t) ==
    LET preempts == active \notin {0, t} /\ ~Outside(active) IN
    /\ preempts => switches < MaxSwitches
    /\ switches' = switches + (IF preempts THEN 1 ELSE 0)
    /\ active' = t

\* handler t takes a step of start_discussion
Runs(t) == Scheduled(t) /\ UNCHANGED completions

\* list o is still referred to: by an attribute of the instance or by a
\* result a caller holds (the other lists are garbage)
Reachable(o, res) ==
    \/ o = transcripts'
    \/ o = analyses'
    \/ \E u \in Callers : res[u] # <<>> /\ o \in {res[u][1].transcripts, res[u][1].analyses}

\* start_discussion without lines 165-167: nothing is reset
Reset_nothing(t, max_rounds) ==
    /\ nruns' = nruns + 1
    /\ result' = [result EXCEPT ![t] = <<>>]
    /\ frame' = [frame EXCEPT ![t] =
                    [NoFrame EXCEPT !.run = nruns',
                                    !.country_code = RequestCountry(t),
                                    !.max_rounds = max_rounds]]
    /\ pc' = [pc EXCEPT ![t] = "introduce"]
    /\ Runs(t)
    /\ UNCHANGED <<transcripts, analyses, turn_order, heap, failures, call>>

\* lines 142-170: the call and the reset.  self.transcripts = [] and
\* self.analyses = [] bind the attributes to new lists.
Reset(t, max_rounds) ==
    /\ nruns' = nruns + 1
    /\ transcripts' = TranscriptsOf(nruns')
    /\ analyses' = AnalysesOf(nruns')
    /\ turn_order' = 0
    /\ result' = [result EXCEPT ![t] = <<>>]
    /\ heap' = [o \in ObjIds |->
                   IF o \in {transcripts', analyses'} \/ ~Reachable(o, result')
                   THEN <<>> ELSE heap[o]]
    /\ frame' = [frame EXCEPT ![t] =
                    [NoFrame EXCEPT !.run = nruns',
                                    !.country_code = RequestCountry(t),
                                    !.max_rounds = max_rounds]]
    /\ pc' = [pc EXCEPT ![t] = "introduce"]
    /\ Runs(t)
    /\ UNCHANGED <<failures, call>>

\* what a call does when the respond call in it raised: the exception
\* leaves start_discussion
Raise(t) ==
    /\ pc' = [pc EXCEPT ![t] = "raised"]
    /\ UNCHANGED <<transcripts, analyses, turn_order, heap, nruns, frame, result>>

\* lines 172-174, 263-278: _moderator_introduce
Introduce(t) ==
    /\ pc[t] = "introduce"
    /\ Runs(t)
    /\ \E outcome \in Outcomes(completions.text) :
        LET r == respond("Moderator", outcome)
            a == _add_transcript(heap, transcripts, turn_order, frame[t].run,
                                 "Moderator", r.text, NoRound)
        IN  /\ Failed(outcome)
            /\ call' = [call EXCEPT ![t] = [to |-> "Moderator", recent |-> <<>>,
                              reply |-> r.text]]
            /\ IF r.raised THEN Raise(t)
               ELSE /\ heap' = a.heap
                    /\ turn_order' = a.turn_order
                    /\ frame' = [frame EXCEPT ![t].introduction = r.text]
                    /\ pc' = [pc EXCEPT ![t] = "round1_moderator"]
                    /\ UNCHANGED <<transcripts, analyses, nruns, result>>

\* lines 176-178, 283-291: _collect_round_analyses(round_number=1,
\* is_first=True), the moderator's opening question
Round1Moderator(t) ==
    /\ pc[t] = "round1_moderator"
    /\ Runs(t)
    /\ LET moderator_q == <<"Let's begin with our expert analyses. ">>
                          \o RoleChars(expert_roles[1])
                          \o <<", what's your assessment of ">>
                          \o frame[t].country_code \o <<"'s situation?">>
           a == _add_transcript(heap, transcripts, turn_order, frame[t].run,
                                "Moderator", moderator_q, 1)
       IN  /\ heap' = a.heap
           /\ turn_order' = a.turn_order
    /\ frame' = [frame EXCEPT ![t].idx = 1]
    /\ pc' = [pc EXCEPT ![t] = "round1_expert"]
    /\ UNCHANGED <<transcripts, analyses, nruns, failures, result, call>>

\* lines 294-329: one pass of "for i, role in enumerate(self.expert_roles)";
\* after the last one, line 181: round_num = 2
Round1Expert(t) ==
    /\ pc[t] = "round1_expert"
    /\ Runs(t)
    /\ \E outcome \in Outcomes(completions.text) :
        LET role == expert_roles[frame[t].idx]
            r == respond(role, outcome)
            h == AppendAnalysis(heap, analyses, frame[t].run, role, r.text, 1)
            a == _add_transcript(h, transcripts, turn_order, frame[t].run,
                                 role, r.text, 1)
            last == frame[t].idx = Len(expert_roles)
        IN  /\ Failed(outcome)
            /\ call' = [call EXCEPT ![t] = [to |-> role, recent |-> <<>>,
                              reply |-> r.text]]
            /\ IF r.raised THEN Raise(t)
               ELSE /\ heap' = a.heap
                    /\ turn_order' = a.turn_order
                    /\ frame' = [frame EXCEPT ![t].idx = @ + 1,
                                              ![t].round_num = IF last THEN 2 ELSE @]
                    /\ pc' = [pc EXCEPT ![t] = IF last THEN "loop" ELSE "round1_expert"]
                    /\ UNCHANGED <<transcripts, analyses, nruns, result>>

\* the loop without its break
AfterDecision_no_break(should_continue) == "debate_moderator"

\* lines 188-193: "if not should_continue: break", else the debate round
AfterDecision(should_continue) ==
    IF should_continue THEN "debate_moderator" ELSE "voting"

\* a decision step that appends the moderator's routing response as a turn
DecideFollowup_recorded(t) ==
    /\ pc[t] = "loop"
    /\ Runs(t)
    /\ frame[t].round_num <= frame[t].max_rounds
    /\ \E outcome \in Outcomes(completions.route) :
      \E d \in {DecodeFollowup(respond("Moderator", outcome).text)} :
        LET recent_discussion == _get_recent_discussion(heap[transcripts], 12)
            r == respond("Moderator", outcome)
            a == _add_transcript(heap, transcripts, turn_order, frame[t].run,
                                 "Moderator", r.text, frame[t].round_num)
        IN  /\ Failed(outcome)
            /\ call' = [call EXCEPT ![t] =
                             [to |-> "Moderator", recent |-> recent_discussion,
                              reply |-> r.text]]
            /\ heap' = a.heap
            /\ turn_order' = a.turn_order
            /\ frame' = [frame EXCEPT
                   ![t].should_continue = d.should_continue,
                   ![t].target_experts = d.target_experts,
                   ![t].decisions = Append(@, d.should_continue),
                   ![t].actual_rounds =
                       IF d.should_continue THEN @ ELSE frame[t].round_num - 1]
            /\ pc' = [pc EXCEPT ![t] = AfterDecision(d.should_continue)]
            /\ UNCHANGED <<transcripts, analyses, nruns, result>>

\* lines 182-190, 331-406: the loop test holds; _moderator_decide_followup;
\* "if not should_continue: break" and then line 196
DecideFollowup(t) ==
    /\ pc[t] = "loop"
    /\ Runs(t)
    /\ frame[t].round_num <= frame[t].max_rounds
    /\ \E outcome \in Outcomes(completions.route) :
      \E d \in {DecodeFollowup(respond("Moderator", outcome).text)} :
        LET recent_discussion == _get_recent_discussion(heap[transcripts], 12)
            r == respond("Moderator", outcome)
        IN  /\ Failed(outcome)
            /\ call' = [call EXCEPT ![t] =
                             [to |-> "Moderator", recent |-> recent_discussion,
                              reply |-> r.text]]
            /\ IF r.raised \/ d.raised THEN Raise(t)
               ELSE /\ frame' = [frame EXCEPT
                            ![t].should_continue = d.should_continue,
                            ![t].target_experts = d.target_experts,
                            ![t].decisions = Append(@, d.should_continue),
                            ![t].actual_rounds =
                                IF d.should_continue THEN @ ELSE frame[t].round_num - 1]
                    /\ pc' = [pc EXCEPT ![t] = AfterDecision(d.should_continue)]
                    /\ UNCHANGED <<transcripts, analyses, turn_order, heap, nruns, result>>

\* start_discussion going from the loop straight to its conclusion
ExitLoop_skips_voting(t) ==
    /\ pc[t] = "loop"
    /\ Runs(t)
    /\ frame[t].round_num > frame[t].max_rounds
    /\ frame' = [frame EXCEPT ![t].actual_rounds = frame[t].round_num - 1]
    /\ pc' = [pc EXCEPT ![t] = "conclude"]
    /\ UNCHANGED <<transcripts, analyses, turn_order, heap, nruns, failures,
                   result, call>>

\* the loop's exit taking the round counter itself for the count of rounds
ExitLoop_counts_next_round(t) ==
    /\ pc[t] = "loop"
    /\ Runs(t)
    /\ frame[t].round_num > frame[t].max_rounds
    /\ frame' = [frame EXCEPT ![t].actual_rounds = frame[t].round_num]
    /\ pc' = [pc EXCEPT ![t] = "voting"]
    /\ UNCHANGED <<transcripts, analyses, turn_order, heap, nruns, failures,
                   result, call>>

\* lines 182, 196: the loop test fails; actual_rounds = round_num - 1
ExitLoop(t) ==
    /\ pc[t] = "loop"
    /\ Runs(t)
    /\ frame[t].round_num > frame[t].max_rounds
    /\ frame' = [frame EXCEPT ![t].actual_rounds = frame[t].round_num - 1]
    /\ pc' = [pc EXCEPT ![t] = "voting"]
    /\ UNCHANGED <<transcripts, analyses, turn_order, heap, nruns, failures,
                   result, call>>

\* a debate round that asks the whole roster whatever the targets are
DebateModerator_asks_all(t) ==
    /\ pc[t] = "debate_moderator"
    /\ Runs(t)
    /\ \E outcome \in Outcomes(completions.text) :
        LET recent == _get_recent_discussion(heap[transcripts], 10)
            r == respond("Moderator", outcome)
            a == _add_transcript(heap, transcripts, turn_order, frame[t].run,
                                 "Moderator", r.text, frame[t].round_num)
        IN  /\ Failed(outcome)
            /\ call' = [call EXCEPT ![t] = [to |-> "Moderator", recent |-> recent,
                              reply |-> r.text]]
            /\ IF r.raised THEN Raise(t)
               ELSE /\ heap' = a.heap
                    /\ turn_order' = a.turn_order
                    /\ frame' = [frame EXCEPT ![t].target_experts = RosterCopy,
                                              ![t].moderator_question = r.text,
                                              ![t].idx = 1]
                    /\ pc' = [pc EXCEPT ![t] = "debate_expert"]
                    /\ UNCHANGED <<transcripts, analyses, nruns, result>>

\* a debate round whose moderator question is appended without the round
DebateModerator_untagged(t) ==
    /\ pc[t] = "debate_moderator"
    /\ Runs(t)
    /\ \E outcome \in Outcomes(completions.text) :
        LET target_experts == IF frame[t].target_experts = <<>>
                              THEN RosterCopy ELSE frame[t].target_experts
            recent == _get_recent_discussion(heap[transcripts], 10)
            r == respond("Moderator", outcome)
            a == _add_transcript(heap, transcripts, turn_order, frame[t].run,
                                 "Moderator", r.text, NoRound)
        IN  /\ Failed(outcome)
            /\ call' = [call EXCEPT ![t] = [to |-> "Moderator", recent |-> recent,
                              reply |-> r.text]]
            /\ IF r.raised THEN Raise(t)
               ELSE /\ heap' = a.heap
                    /\ turn_order' = a.turn_order
                    /\ frame' = [frame EXCEPT ![t].target_experts = target_experts,
                                              ![t].moderator_question = r.text,
                                              ![t].idx = 1]
                    /\ pc' = [pc EXCEPT ![t] = "debate_expert"]
                    /\ UNCHANGED <<transcripts, analyses, nruns, result>>

\* lines 193, 418-442: _conduct_dynamic_debate_round up to the moderator's
\* question
DebateModerator(t) ==
    /\ pc[t] = "debate_moderator"
    /\ Runs(t)
    /\ \E outcome \in Outcomes(completions.text) :
        LET target_experts == IF frame[t].target_experts = <<>>
                              THEN RosterCopy ELSE frame[t].target_experts
            recent == _get_recent_discussion(heap[transcripts], 10)
            r == respond("Moderator", outcome)
            a == _add_transcript(heap, transcripts, turn_order, frame[t].run,
                                 "Moderator", r.text, frame[t].round_num)
        IN  /\ Failed(outcome)
            /\ call' = [call EXCEPT ![t] = [to |-> "Moderator", recent |-> recent,
                              reply |-> r.text]]
            /\ IF r.raised THEN Raise(t)
               ELSE /\ heap' = a.heap
                    /\ turn_order' = a.turn_order
                    /\ frame' = [frame EXCEPT ![t].target_experts = target_experts,
                                              ![t].moderator_question = r.text,
                                              ![t].idx = 1]
                    /\ pc' = [pc EXCEPT ![t] = "debate_expert"]
                    /\ UNCHANGED <<transcripts, analyses, nruns, result>>

\* lines 445-468: one pass of "for role in target_experts"; after the last
\* one, line 194: round_num += 1
DebateExpert(t) ==
    /\ pc[t] = "debate_expert"
    /\ Runs(t)
    /\ \E outcome \in Outcomes(completions.text) :
        LET role == frame[t].target_experts[frame[t].idx]
            recent_context == _get_recent_discussion(heap[transcripts], 8)
            r == respond(role, outcome)
            h == AppendAnalysis(heap, analyses, frame[t].run, role, r.text,
                                frame[t].round_num)
            a == _add_transcript(h, transcripts, turn_order, frame[t].run,
                                 role, r.text, frame[t].round_num)
            last == frame[t].idx = Len(frame[t].target_experts)
        IN  /\ Failed(outcome)
            /\ call' = [call EXCEPT ![t] = [to |-> role, recent |-> recent_context,
                              reply |-> r.text]]
            /\ IF r.raised THEN Raise(t)
               ELSE /\ heap' = a.heap
                    /\ turn_order' = a.turn_order
                    /\ frame' = [frame EXCEPT ![t].idx = @ + 1,
                                              ![t].round_num = IF last THEN @ + 1 ELSE @]
                    /\ pc' = [pc EXCEPT ![t] = IF last THEN "loop" ELSE "debate_expert"]
                    /\ UNCHANGED <<transcripts, analyses, nruns, result>>

\* line 475: the moderator's call for votes
moderator_call ==
    <<"Let's move to our final assessments. I'd like each expert to cast their vote on the overall outlook.">>

\* a voting call tagged with the last round
CallVote_tagged(t) ==
    /\ pc[t] = "voting"
    /\ Runs(t)
    /\ LET a == _add_transcript(heap, transcripts, turn_order, frame[t].run,
                                "Moderator", moderator_call, frame[t].actual_rounds)
       IN  /\ heap' = a.heap
           /\ turn_order' = a.turn_order
           /\ frame' = [frame EXCEPT
                  ![t].votes = <<>>,
                  ![t].recent_discussion = _get_recent_discussion(a.heap[transcripts], 15),
                  ![t].idx = 1]
    /\ pc' = [pc EXCEPT ![t] = "vote"]
    /\ UNCHANGED <<transcripts, analyses, nruns, failures, result, call>>

\* lines 198-200, 470-479: _conduct_voting up to the context snapshot
CallVote(t) ==
    /\ pc[t] = "voting"
    /\ Runs(t)
    /\ LET a == _add_transcript(heap, transcripts, turn_order, frame[t].run,
                                "Moderator", moderator_call, NoRound)
       IN  /\ heap' = a.heap
           /\ turn_order' = a.turn_order
           /\ frame' = [frame EXCEPT
                  ![t].votes = <<>>,
                  ![t].recent_discussion = _get_recent_discussion(a.heap[transcripts], 15),
                  ![t].idx = 1]
    /\ pc' = [pc EXCEPT ![t] = "vote"]
    /\ UNCHANGED <<transcripts, analyses, nruns, failures, result, call>>

\* int(vote.confidence * 100)
PercentShown(confidence) == FloatToInt(FMul(confidence, FromInt(100)))

\* a voting loop that takes the recent discussion anew for every voter
ExpertVote_fresh_context(t) ==
    /\ pc[t] = "vote"
    /\ Runs(t)
    /\ \E outcome \in Outcomes(completions.vote) :
      \E vote \in {_parse_vote(expert_roles[frame[t].idx],
                               respond(expert_roles[frame[t].idx], outcome).text)} :
        LET role == expert_roles[frame[t].idx]
            r == respond(role, outcome)
            vote_statement == <<"I vote ", vote.vote_mood, " with ">>
                              \o str(PercentShown(vote.confidence))
                              \o <<"% confidence. ">> \o vote.reasoning
            last == frame[t].idx = Len(expert_roles)
        IN
        \E a \in {_add_transcript(heap, transcripts, turn_order, frame[t].run,
                                  role, vote_statement, NoRound)} :
            /\ Failed(outcome)
            /\ call' = [call EXCEPT ![t] =
                             [to |-> role,
                              recent |-> _get_recent_discussion(heap[transcripts], 15),
                              reply |-> r.text]]
            /\ heap' = a.heap
            /\ turn_order' = a.turn_order
            /\ frame' = [frame EXCEPT ![t].votes = Append(@, vote),
                                      ![t].idx = @ + 1]
            /\ pc' = [pc EXCEPT ![t] = IF last THEN "scoring" ELSE "vote"]
            /\ UNCHANGED <<transcripts, analyses, nruns, result>>

\* the voting loop recording a vote without the expert's statement
ExpertVote_no_statement(t) ==
    /\ pc[t] = "vote"
    /\ Runs(t)
    /\ \E outcome \in Outcomes(completions.vote) :
      \E vote \in {_parse_vote(expert_roles[frame[t].idx],
                               respond(expert_roles[frame[t].idx], outcome).text)} :
        LET role == expert_roles[frame[t].idx]
            r == respond(role, outcome)
            last == frame[t].idx = Len(expert_roles)
        IN  /\ Failed(outcome)
            /\ call' = [call EXCEPT ![t] =
                             [to |-> role, recent |-> frame[t].recent_discussion,
                              reply |-> r.text]]
            /\ IF r.raised THEN Raise(t)
               ELSE /\ frame' = [frame EXCEPT ![t].votes = Append(@, vote),
                                              ![t].idx = @ + 1]
                    /\ pc' = [pc EXCEPT ![t] = IF last THEN "scoring" ELSE "vote"]
                    /\ UNCHANGED <<transcripts, analyses, turn_order, heap,
                                   nruns, result>>

\* lines 481-501: one pass of "for role in self.expert_roles"
ExpertVote(t) ==
    /\ pc[t] = "vote"
    /\ Runs(t)
    /\ \E outcome \in Outcomes(completions.vote) :
      \E vote \in {_parse_vote(expert_roles[frame[t].idx],
                               respond(expert_roles[frame[t].idx], outcome).text)} :
        LET role == expert_roles[frame[t].idx]
            r == respond(role, outcome)
            vote_statement == <<"I vote ", vote.vote_mood, " with ">>
                              \o str(PercentShown(vote.confidence))
                              \o <<"% confidence. ">> \o vote.reasoning
            last == frame[t].idx = Len(expert_roles)
        IN
        \E a \in {_add_transcript(heap, transcripts, turn_order, frame[t].run,
                                  role, vote_statement, NoRound)} :
            /\ Failed(outcome)
            /\ call' = [call EXCEPT ![t] =
                             [to |-> role, recent |-> frame[t].recent_discussion,
                              reply |-> r.text]]
            /\ IF r.raised THEN Raise(t)
               ELSE /\ heap' = a.heap
                    /\ turn_order' = a.turn_order
                    /\ frame' = [frame EXCEPT ![t].votes = Append(@, vote),
                                              ![t].idx = @ + 1]
                    /\ pc' = [pc EXCEPT ![t] = IF last THEN "scoring" ELSE "vote"]
                    /\ UNCHANGED <<transcripts, analyses, nruns, result>>

\* lines 202-203: final_mood, final_score = self._calculate_final_mood(votes)
Score(t) ==
    /\ pc[t] = "scoring"
    /\ Runs(t)
    /\ \E f \in {_calculate_final_mood(frame[t].votes)} :
       frame' = [frame EXCEPT ![t].final_mood = f.final_mood,
                              ![t].final_score = f.final_score]
    /\ pc' = [pc EXCEPT ![t] = "conclude"]
    /\ UNCHANGED <<transcripts, analyses, turn_order, heap, nruns, failures,
                   result, call>>

\* a result whose total_turns was taken before the conclusion was appended
PanelResult_before_conclusion(t, conclusion, h) ==
    [country_code |-> frame[t].country_code,
     final_mood |-> frame[t].final_mood,
     final_score |-> frame[t].final_score,
     introduction |-> frame[t].introduction,
     conclusion |-> conclusion,
     total_turns |-> Len(heap[transcripts]),
     debate_rounds |-> frame[t].actual_rounds,
     analyses |-> analyses,
     votes |-> frame[t].votes,
     transcripts |-> transcripts]

\* lines 209-222: the PanelResult.  analyses and transcripts are the
\* attributes themselves, that is references to the instance's lists.
PanelResult(t, conclusion, h) ==
    [country_code |-> frame[t].country_code,
     final_mood |-> frame[t].final_mood,
     final_score |-> frame[t].final_score,
     introduction |-> frame[t].introduction,
     conclusion |-> conclusion,
     total_turns |-> Len(h[transcripts]),
     debate_rounds |-> frame[t].actual_rounds,
     analyses |-> analyses,
     votes |-> frame[t].votes,
     transcripts |-> transcripts]

\* lines 205-232, 574-597: _moderator_conclude, the result and the return
Conclude(t) ==
    /\ pc[t] = "conclude"
    /\ Runs(t)
    /\ \E outcome \in Outcomes(completions.text) :
        LET recent_discussion == _get_recent_discussion(heap[transcripts], 12)
            r == respond("Moderator", outcome)
            a == _add_transcript(heap, transcripts, turn_order, frame[t].run,
                                 "Moderator", r.text, NoRound)
        IN  /\ Failed(outcome)
            /\ call' = [call EXCEPT ![t] =
                             [to |-> "Moderator", recent |-> recent_discussion,
                              reply |-> r.text]]
            /\ IF r.raised THEN Raise(t)
               ELSE /\ heap' = a.heap
                    /\ turn_order' = a.turn_order
                    /\ result' = [result EXCEPT ![t] = <<PanelResult(t, r.text, a.heap)>>]
                    /\ pc' = [pc EXCEPT ![t] = "done"]
                    /\ UNCHANGED <<transcripts, analyses, nruns, frame>>

\* the steps of start_discussion after its entry
Step(t) ==
    \/ Introduce(t)
    \/ Round1Moderator(t)
    \/ Round1Expert(t)
    \/ DecideFollowup(t)
    \/ ExitLoop(t)
    \/ DebateModerator(t)
    \/ DebateExpert(t)
    \/ CallVote(t)
    \/ ExpertVote(t)
    \/ Score(t)
    \/ Conclude(t)

\* the max_rounds arguments of the callers
MaxRoundsArgs == 0..MaxRoundsArg

\* max_rounds: int = 5
DefaultMaxRounds == 5

\* a caller enters start_discussion while no call is in progress
StartDiscussion(t) ==
    /\ nruns < MaxRuns
    /\ \A u \in Callers : Outside(u)
    /\ \E max_rounds \in MaxRoundsArgs : Reset(t, max_rounds)

\* the first call of start_discussion on the instance
FirstCall(t) ==
    /\ nruns = 0
    /\ StartDiscussion(t)

\* main.py lines 76-82: a request handler enters panel.start_discussion
\* whatever the other handlers are doing, and leaves max_rounds to its default
StartConcurrently(t) ==
    /\ nruns < MaxRuns
    /\ Outside(t)
    /\ Reset(t, DefaultMaxRounds)

Next == \E t \in Callers : FirstCall(t) \/ Step(t)

\* one call of start_discussion on a new instance
Spec == Init /\ [][Next]_vars

SeqNext == \E t \in Callers : StartDiscussion(t) \/ Step(t)

\* calls of start_discussion one after the other on one instance
SeqSpec == SeqInit /\ [][SeqNext]_vars

ConcNext == \E t \in Callers : StartConcurrently(t) \/ Step(t)

\* the request handlers of main.py calling the shared panel concurrently
ConcSpec == SeqInit /\ [][ConcNext]_vars

\* a new instance with any of the capabilities
DecoderInit == \E capability \in DecoderCompletions : Constructed(capability)

\* main.py lines 76-82: the first request to the instance
FirstRequest(t) ==
    /\ nruns = 0
    /\ StartConcurrently(t)

DecoderNext == \E t \in Callers : FirstRequest(t) \/ Step(t)

\* one request, whose discussion decodes the replies of the capability
DecoderSpec == DecoderInit /\ [][DecoderNext]_vars

(***************************************************************************)
(* The properties.                                                         *)
(***************************************************************************)
\* handler t holds the result of its call
Returned(t) == result[t] # <<>>
ResultOf(t) == result[t][1]
\* the lists the result refers to
ResultTranscripts(t) == heap[result[t][1].transcripts]
ResultAnalyses(t) == heap[result[t][1].analyses]

\* the calls that have left the debate loop
AfterLoop == {"voting", "vote", "scoring", "conclude", "done"}

\* C1: in every result total_turns is the length of the transcript and the
\* turn_order values, in list order, are 1, 2, ..., total_turns.
C1_TurnOrderContiguous ==
    \A t \in Callers : Returned(t) =>
        LET T == ResultTranscripts(t) IN
        /\ ResultOf(t).total_turns = Len(T)
        /\ \A i \in 1..Len(T) : T[i].turn_order = i

\* a result of a discussion with a debate round
C1_Witness ==
    \E t \in Callers :
        /\ Returned(t)
        /\ ResultOf(t).debate_rounds >= 2
        /\ ResultOf(t).total_turns > 10

\* C2: every result has 1 <= debate_rounds <= max_rounds.
C2_DebateRoundsWithinMaxRounds ==
    \A t \in Callers : Returned(t) =>
        /\ 1 <= ResultOf(t).debate_rounds
        /\ ResultOf(t).debate_rounds <= frame[t].max_rounds

\* C3: a call with max_rounds < 1 fails at entry: it calls no respondent,
\* appends no turn and returns no result.
C3_MaxRoundsBelowOneRejected ==
    \A t \in Callers : (pc[t] # "idle" /\ frame[t].max_rounds < 1) =>
        /\ call[t] = NoCall
        /\ \A i \in 1..Len(heap[transcripts]) : heap[transcripts][i].run # frame[t].run
        /\ ~Returned(t)

\* C4: a call ends in its conclusion without raising, and when every routing
\* decision said continue it has executed exactly max_rounds rounds.
C4_AlwaysContinueRunsMaxRounds ==
    \A t \in Callers :
        /\ pc[t] # "raised"
        /\ (pc[t] = "done" /\ \A i \in 1..Len(frame[t].decisions) : frame[t].decisions[i])
            => ResultOf(t).debate_rounds = frame[t].max_rounds

\* the position of a call among the phases: Reset done (1), first analysis
\* round (2), debate loop (3), voting (4), scoring (5), conclusion (6),
\* returned (7)
PhaseRank(p) ==
    CASE p = "idle" -> 0
      [] p = "introduce" -> 1
      [] p \in {"round1_moderator", "round1_expert"} -> 2
      [] p \in {"loop", "debate_moderator", "debate_expert"} -> 3
      [] p \in {"voting", "vote"} -> 4
      [] p = "scoring" -> 5
      [] p = "conclude" -> 6
      [] p = "done" -> 7
      [] p = "raised" -> 8

\* a step of a call stays in its phase or enters the next one, and appends
\* no analysis once the call has left the debate loop
PhaseStep ==
    \A t \in Callers : frame'[t].run = frame[t].run =>
        /\ PhaseRank(pc'[t]) \in {PhaseRank(pc[t]), PhaseRank(pc[t]) + 1}
        /\ (pc[t] \in AfterLoop /\ pc'[t] # pc[t]) => heap'[analyses'] = heap[analyses]

\* the transcript of a result: the introduction, the turns of the rounds,
\* the voting call, the vote statements, the conclusion
PhaseShape ==
    \A t \in Callers : Returned(t) =>
        LET T == ResultTranscripts(t) IN
        /\ Len(T) >= 2
        /\ T[1].speaker = "Moderator" /\ T[1].round_number = NoRound
        /\ T[1].content = ResultOf(t).introduction
        /\ T[Len(T)].speaker = "Moderator" /\ T[Len(T)].round_number = NoRound
        /\ T[Len(T)].content = ResultOf(t).conclusion
        /\ \E v \in 2..Len(T) :
            /\ T[v].content = moderator_call
            /\ \A i \in 2..(v - 1) : T[i].round_number # NoRound
            /\ \A i \in v..Len(T) : T[i].round_number = NoRound

\* C5: the phases of a call occur in the fixed order and none is revisited;
\* the introduction is the first turn, the conclusion the last, and no
\* analysis or debate turn follows the voting call.
C5_PhasesInOrder == [][PhaseStep]_vars /\ []PhaseShape

\* a result whose call went through a debate round
C5_Witness ==
    \E t \in Callers :
        /\ Returned(t)
        /\ ResultOf(t).debate_rounds >= 2
        /\ Len(ResultAnalyses(t)) > Len(expert_roles)

\* C6: a decision with continue = false for round r sends the call to
\* Voting at once, with no turn and no analysis of round r and
\* debate_rounds = r - 1; the loop ends in no other way before max_rounds.
C6_StopGoesToVoting ==
    \A t \in Callers :
        LET f == frame[t]
            n == Len(f.decisions)
            stopped == n > 0 /\ ~f.decisions[n]
            r == f.round_num
        IN  /\ stopped =>
                /\ pc[t] \in AfterLoop
                /\ 2 <= r /\ r <= f.max_rounds
                /\ r = n + 1
                /\ f.actual_rounds = r - 1
                /\ \A i \in 1..Len(heap[transcripts]) :
                       heap[transcripts][i].round_number # r
                /\ \A i \in 1..Len(heap[analyses]) :
                       heap[analyses][i].round_number # r
                /\ Returned(t) => ResultOf(t).debate_rounds = r - 1
            /\ (pc[t] \in AfterLoop /\ ~stopped) => r > f.max_rounds

\* a call that the moderator stopped at its second decision
C6_Witness ==
    \E t \in Callers :
        /\ pc[t] = "done"
        /\ frame[t].decisions = <<TRUE, FALSE>>

\* the step in which a completion fails: the caller gets the sentinel that
\* names the role, and the call goes on to where a reply would take it
FailureStep ==
    failures' # failures =>
        /\ call'[active'].reply = ErrorSentinel(call'[active'].to)
        /\ pc'[active'] # "raised"
        /\ PhaseRank(pc'[active']) \in {PhaseRank(pc[active']), PhaseRank(pc[active']) + 1}

\* C7: a failing completion never aborts the call: respond returns the
\* sentinel naming the role, no exception leaves start_discussion, and the
\* result holds one vote for each expert.
C7_FailureNeverAborts ==
    /\ [][FailureStep]_vars
    /\ [](\A t \in Callers :
            /\ pc[t] # "raised"
            /\ Returned(t) =>
                /\ Len(ResultOf(t).votes) = Len(expert_roles)
                /\ \A i \in 1..Len(expert_roles) :
                       ResultOf(t).votes[i].expert_role = expert_roles[i])

\* a result of a call in which the completion of a voting expert failed
C7_Witness ==
    \E t \in Callers :
        /\ Returned(t)
        /\ failures > 0
        /\ \E i \in 1..Len(expert_roles) :
               ResultOf(t).votes[i].reasoning = ErrorSentinel(expert_roles[i])

\* C8: the result of a request holds only the turns of its own discussion,
\* numbered 1..total_turns, also when two requests overlap.
C8_ResultHoldsOwnTurns ==
    \A t \in Callers : Returned(t) =>
        LET T == ResultTranscripts(t) IN
        /\ ResultOf(t).total_turns = Len(T)
        /\ \A i \in 1..Len(T) : T[i].turn_order = i /\ T[i].run = frame[t].run

\* C9: every call starts from an empty state: its result holds no turn and
\* no analysis of an earlier call, one vote for each expert, and its first
\* turn has turn_order 1.
C9_RunsStartEmpty ==
    \A t \in Callers :
        /\ pc[t] = "introduce" =>
            heap[transcripts] = <<>> /\ heap[analyses] = <<>> /\ turn_order = 0
        /\ Returned(t) =>
            LET T == ResultTranscripts(t)
                A == ResultAnalyses(t)
            IN  /\ \A i \in 1..Len(T) : T[i].run = frame[t].run
                /\ \A i \in 1..Len(A) : A[i].run = frame[t].run
                /\ T # <<>> /\ T[1].turn_order = 1
                /\ Len(ResultOf(t).votes) = Len(expert_roles)

\* the result of a call that was not the first on the instance
C9_Witness ==
    \E t \in Callers : Returned(t) /\ frame[t].run >= 2

\* C10: a result a caller holds is not changed by any later step on the
\* instance: its transcripts and analyses stay as they were returned.
C10_ResultNotChanged ==
    [][\A t \in Callers : (Returned(t) /\ result'[t] = result[t]) =>
            /\ heap'[ResultOf(t).transcripts] = heap[ResultOf(t).transcripts]
            /\ heap'[ResultOf(t).analyses] = heap[ResultOf(t).analyses]]_vars

\* the words that open the statement of a vote
VoteStatementOpening(vote) == <<"I vote ", vote.vote_mood, " with ">>

\* a step that changes the votes of a call is a step of its voting phase: it
\* appends the vote of the next expert of the roster and one turn, the
\* statement of that vote spoken by that expert
VoteStep ==
    \A t \in Callers :
        (frame'[t].run = frame[t].run /\ frame'[t].votes # frame[t].votes) =>
            LET n == Len(frame[t].votes)
                T == heap[transcripts]
            IN  /\ pc[t] = "vote"
                /\ n < Len(expert_roles)
                /\ \E i \in 1..Len(T) : T[i].content = moderator_call
                /\ Len(frame'[t].votes) = n + 1
                /\ SubSeq(frame'[t].votes, 1, n) = frame[t].votes
                /\ frame'[t].votes[n + 1].expert_role = expert_roles[n + 1]
                /\ Len(heap'[transcripts']) = Len(T) + 1
                /\ SubSeq(heap'[transcripts'], 1, Len(T)) = T
                /\ LET turn == heap'[transcripts'][Len(T) + 1] IN
                       /\ turn.speaker = expert_roles[n + 1]
                       /\ turn.round_number = NoRound
                       /\ SubSeq(turn.content, 1, 3) =
                              VoteStatementOpening(frame'[t].votes[n + 1])

\* the votes of a result and the end of its transcript: the voting call, one
\* statement for each vote in roster order, the conclusion
VoteShape ==
    \A t \in Callers : Returned(t) =>
        LET T == ResultTranscripts(t)
            V == ResultOf(t).votes
            n == Len(expert_roles)
            v == Len(T) - n - 1
        IN  /\ Len(V) = n
            /\ v >= 2
            /\ T[v].content = moderator_call /\ T[v].speaker = "Moderator"
            /\ \A i \in 1..n :
                   /\ V[i].expert_role = expert_roles[i]
                   /\ T[v + i].speaker = expert_roles[i]
                   /\ SubSeq(T[v + i].content, 1, 3) = VoteStatementOpening(V[i])
            /\ \A i \in 1..(v - 1) : T[i].content # moderator_call
            /\ \A i \in 1..(v - 1) : T[i].speaker # "Moderator" =>
                   T[i].round_number # NoRound

\* C11: every result holds exactly one vote per expert, in roster order, each
\* produced in the voting phase after the moderator's voting call, and each
\* vote is followed in the transcript by exactly one statement of that vote
\* spoken by that expert.
C11_OneVotePerExpert == [][VoteStep]_vars /\ []VoteShape

\* a result whose experts did not all vote alike
C11_Witness ==
    \E t \in Callers :
        /\ Returned(t)
        /\ \E i, j \in 1..Len(expert_roles) :
               ResultOf(t).votes[i].vote_mood # ResultOf(t).votes[j].vote_mood

\* the round numbers that tag the entries of a list of turns or analyses
RoundNumbers(entries) ==
    {entries[i].round_number : i \in 1..Len(entries)} \ {NoRound}

\* C12: debate_rounds is the number of rounds executed, round 1 included:
\* the round numbers that tag the turns of the transcript are those that tag
\* the analyses, they are exactly 1..debate_rounds, and debate_rounds is
\* their number.
C12_DebateRoundsCountsRounds ==
    \A t \in Callers : Returned(t) =>
        LET n == ResultOf(t).debate_rounds IN
        /\ RoundNumbers(ResultTranscripts(t)) = 1..n
        /\ RoundNumbers(ResultAnalyses(t)) = 1..n
        /\ Cardinality(RoundNumbers(ResultTranscripts(t))) = n
        /\ n >= 1

\* a result of a call that left the loop because max_rounds was exhausted,
\* after debate rounds
C12_Witness ==
    \E t \in Callers :
        /\ Returned(t)
        /\ ResultOf(t).debate_rounds = 3
        /\ frame[t].decisions = <<TRUE, TRUE>>

(***************************************************************************)
(* The decoders.  A voting reply and the vote decoded from it are read in  *)
(* the states that follow the decoding: the last respond call of the       *)
(* caller is the voting call and its vote is the last of the list.  In the *)
(* same way a routing reply and its decision are read in the states that   *)
(* follow _moderator_decide_followup.                                      *)
(***************************************************************************)
\* the vote of caller t recorded last was decoded from call[t].reply
VoteDecoded(t) ==
    /\ pc[t] \in {"vote", "scoring", "conclude"}
    /\ frame[t].votes # <<>>

LastVote(t) == frame[t].votes[Len(frame[t].votes)]

\* the decision in frame[t] was decoded from call[t].reply
RouteDecoded(t) ==
    \/ pc[t] = "debate_moderator"
    \/ pc[t] = "voting" /\ frame[t].round_num <= frame[t].max_rounds

\* what stands before the first colon of a line, trimmed and in lower case;
\* <<>> for a line without a colon
LabelOf(line) ==
    LET k == FindChar(line, ":", 1) IN
    IF k = 0 THEN <<>> ELSE lower(strip(SubSeq(line, 1, k - 1)))

\* the lines of a response that the decoders take for lines with this label
LinesLabelled(response, label) ==
    SelectSeq(split(response, "\n"),
              LAMBDA line : startswith(strip(lower(line)), label))

\* what follows the first colon of a line
ValueOf(line) == AfterFirst(line, ":")

\* the float x is a float nearest to n / q, for a float n and an int q > 0:
\* x differs from the quotient by at most half a unit of its last place
IsFloatQuotient(x, n, q) ==
    IF n = FloatZero THEN x = FloatZero
    ELSE /\ x # FloatZero
         /\ BBitLen(x.m) = MantissaBits
         /\ LET e == IF x.e < n.e THEN x.e ELSE n.e
                a == BMul(BShl(x.m, x.e - e), BFromInt(q))
                b == BShl(n.m, n.e - e)
                diff == IF BCmp(a, b) >= 0 THEN BSub(a, b) ELSE BSub(b, a)
            IN  BCmp(BMul(diff, <<2>>),
                     BMul(BShl(<<1>>, x.e - e), BFromInt(q))) <= 0

\* x is the float 0.5
IsHalf(x) == IsFloatQuotient(x, FromInt(1), 2)

\* the mood a name of the prompt stands for
MoodOf(m) ==
    CASE m = <<"H","a","p","p","y">> -> "happy"
      [] m = <<"N","e","u","t","r","a","l">> -> "neutral"
      [] m = <<"S","a","d">> -> "sad"

\* the parts m, c, r of a response of three lines
FormatParts(response) ==
    LET lines == split(response, "\n") IN
    [m |-> SubSeq(lines[1], Len(VotePrefix) + 1, Len(lines[1])),
     digits |-> SubSeq(lines[2], Len(ConfidencePrefix) + 1, Len(lines[2])),
     r |-> SubSeq(lines[3], Len(ReasoningPrefix) + 1, Len(lines[3]))]

\* the response is WellFormedVote(m, c, r) for a mood name m, an integer c
\* in 0..100 and a text r
InFormat(response) ==
    /\ Len(split(response, "\n")) = 3
    /\ LET p == FormatParts(response) IN
       /\ p.m \in MoodNames
       /\ p.digits # <<>>
       /\ \A i \in 1..Len(p.digits) : isdigit(p.digits[i])
       /\ Len(p.digits) <= 3
       /\ DigitsValue(p.digits) \in Percents
       /\ response = WellFormedVote(p.m, DigitsValue(p.digits), p.r)

\* the vote is the one the format describes: mood m in lower case,
\* confidence c / 100, reasoning r
DecodedAsWritten(vote, p) ==
    /\ vote.vote_mood = MoodOf(p.m)
    /\ IsFloatQuotient(vote.confidence, FromInt(DigitsValue(p.digits)), 100)
    /\ vote.reasoning = p.r

\* C13 as stated: for every mood m in {Happy, Neutral, Sad}, every integer c
\* in 0..100 and every single-line reasoning text r, decoding the lines
\* "Vote: m", "Confidence: c", "Reasoning: r" yields mood = lower-case m,
\* confidence = c / 100 and reasoning = r.
C13_WellFormedVoteDecoded ==
    \A t \in Callers : (VoteDecoded(t) /\ InFormat(call[t].reply)) =>
        DecodedAsWritten(LastVote(t), FormatParts(call[t].reply))

\* C13 amended: the same for every single-line reasoning text r that is not
\* empty and has no white space at its start or end.
C13_TrimmedReasoningDecoded ==
    \A t \in Callers : (VoteDecoded(t) /\ InFormat(call[t].reply)) =>
        LET p == FormatParts(call[t].reply) IN
        (p.r # <<>> /\ strip(p.r) = p.r) => DecodedAsWritten(LastVote(t), p)

\* a vote decoded from "Vote: Sad", "Confidence: 29", "Reasoning: a: b"
C13_Witness ==
    \E t \in Callers :
        /\ VoteDecoded(t)
        /\ call[t].reply = WellFormedVote(<<"S","a","d">>, 29, <<"a",":"," ","b">>)
        /\ LastVote(t).vote_mood = "sad"
        /\ LastVote(t).reasoning = <<"a",":"," ","b">>

\* the labels of the lines of a response
LabelsOf(response) ==
    {LabelOf(split(response, "\n")[i]) : i \in 1..Len(split(response, "\n"))}

\* C14: for every response with no line whose label is Vote, Confidence or
\* Reasoning, the failure sentinel of respond included, the decoder returns
\* mood neutral, confidence 0.5 and the entire raw response as reasoning.
C14_UnlabelledVoteIsDefault ==
    \A t \in Callers :
        ( /\ VoteDecoded(t)
          /\ LabelsOf(call[t].reply) \cap
                 {<<"v","o","t","e">>, <<"c","o","n","f","i","d","e","n","c","e">>,
                  <<"r","e","a","s","o","n","i","n","g">>} = {} ) =>
            /\ LastVote(t).vote_mood = "neutral"
            /\ IsHalf(LastVote(t).confidence)
            /\ LastVote(t).reasoning = call[t].reply
            /\ LastVote(t).expert_role = call[t].to

\* a vote decoded from the sentinel of a failed completion
C14_Witness ==
    \E t \in Callers :
        /\ VoteDecoded(t)
        /\ call[t].reply = ErrorSentinel(call[t].to)
        /\ LastVote(t).reasoning = ErrorSentinel(call[t].to)
        /\ LastVote(t).vote_mood = "neutral"

\* the characters of a Confidence value that float() is given
NumberText(value) == SelectSeq(value, LAMBDA c : isdigit(c) \/ c = ".")

\* float() raises ValueError on the text: no digit, or more than one period
Unparseable(text) ==
    \/ \A i \in 1..Len(text) : ~isdigit(text[i])
    \/ Cardinality({i \in 1..Len(text) : text[i] = "."}) > 1

\* the Confidence lines of a response
ConfidenceLines(response) == LinesLabelled(response, ConfidenceLabel)

\* parsing the response raises: one of its Confidence lines has a value
\* that float() rejects
ParsingRaises(response) ==
    \E i \in 1..Len(ConfidenceLines(response)) :
        Unparseable(NumberText(ValueOf(ConfidenceLines(response)[i])))

\* C15: when parsing a voting response raises an exception, the decoder
\* does not propagate it and returns the default vote, mood neutral and
\* confidence 0.5, with the raw response as reasoning, also when a Vote line
\* or a Reasoning line stands before or after the failing line.
C15_RaisingVoteIsDefault ==
    \A t \in Callers :
        /\ pc[t] # "raised"
        /\ (VoteDecoded(t) /\ ParsingRaises(call[t].reply)) =>
            /\ LastVote(t).vote_mood = "neutral"
            /\ IsHalf(LastVote(t).confidence)
            /\ LastVote(t).reasoning = call[t].reply

\* the confidence is the one the value of a Confidence line gives: 0.5 when
\* float() rejects it, else min(100, max(0, n)) / 100 for its number n
ConfidenceOfLine(confidence, line) ==
    LET text == NumberText(ValueOf(line)) IN
    IF Unparseable(text) THEN IsHalf(confidence)
    ELSE LET n == float(text).value IN
         IF FGeq(n, FromInt(100)) THEN confidence = FromInt(1)
         ELSE IsFloatQuotient(confidence, n, 100)

\* C16: for every voting response the decoded confidence lies in [0, 1]; a
\* Confidence line whose value, without the characters that are neither
\* digits nor periods, parses to a number n gives min(100, max(0, n)) / 100,
\* and an absent or unparseable Confidence value gives 0.5.  (A response
\* with several Confidence lines gives what one of them gives.)
C16_ConfidenceClamped ==
    \A t \in Callers : VoteDecoded(t) =>
        LET confidence == LastVote(t).confidence
            lines == ConfidenceLines(call[t].reply)
        IN  /\ FGeq(confidence, FloatZero)
            /\ FGeq(FromInt(1), confidence)
            /\ lines = <<>> => IsHalf(confidence)
            /\ Len(lines) = 1 => ConfidenceOfLine(confidence, lines[1])
            /\ Len(lines) > 1 =>
                   \E i \in 1..Len(lines) : ConfidenceOfLine(confidence, lines[i])

\* a vote decoded from "Confidence: 150": the value is clamped to 100
C16_Witness ==
    \E t \in Callers :
        /\ VoteDecoded(t)
        /\ call[t].reply = VoteAbove100
        /\ LastVote(t).confidence = FromInt(1)

\* the Target Experts lines of a response
TargetLines(response) == LinesLabelled(response, TargetExpertsLabel)

\* C17: for every moderator response that has a Target Experts line whose
\* value contains "none", the decision is continue = false with no target,
\* also when the response has a "Continue: Yes" line, whichever of the two
\* lines comes first.
C17_NoneOverridesYes ==
    \A t \in Callers :
        ( /\ RouteDecoded(t)
          /\ \E i \in 1..Len(TargetLines(call[t].reply)) :
                 In(NoneWord, lower(ValueOf(TargetLines(call[t].reply)[i]))) ) =>
            /\ ~frame[t].should_continue
            /\ frame[t].target_experts = <<>>

\* the tokens of a Target Experts value: the pieces between the commas,
\* trimmed, in lower case
TokensOf(value) ==
    {lower(strip(split(value, ",")[i])) : i \in 1..Len(split(value, ","))}

\* the roster restricted to the roles that a token names: the token is in
\* the role or the role is in the token
RolesNamed(tokens) ==
    SelectSeq(expert_roles,
              LAMBDA role : \E token \in tokens :
                  \/ In(token, lower(RoleChars(role)))
                  \/ In(lower(RoleChars(role)), token))

FloatWithin(x, k) == FGeq(x, FloatZero) /\ FGeq(FromInt(k), x)

\* C20: for every list of votes whose confidences have a positive sum, the
\* final_score lies in [0, 100] (it is sum(anchor * confidence) /
\* sum(confidence) with anchors happy = 100, neutral = 50, sad = 0).
C20_FinalScoreWithin0To100 ==
    \A t \in Callers :
        ( /\ pc[t] \in {"conclude", "done"}
          /\ \E i \in 1..Len(frame[t].votes) :
                 frame[t].votes[i].confidence # FloatZero ) =>
            FloatWithin(frame[t].final_score, 100)

\* caller t has the (final_mood, final_score) pair of _calculate_final_mood
Scored(t) == pc[t] \in {"conclude", "done"}

\* C21: the final mood is a function of the final score alone and matches
\* the thresholds at the boundaries: happy exactly when final_score >= 67,
\* neutral exactly when 34 <= final_score < 67, sad exactly when
\* final_score < 34; the result carries the same pair.
C21_MoodMatchesThresholds ==
    \A t \in Callers : Scored(t) =>
        LET score == frame[t].final_score
            mood == frame[t].final_mood
        IN  /\ mood = "happy" <=> FGeq(score, FromInt(67))
            /\ mood = "neutral" <=>
                   (FGeq(score, FromInt(34)) /\ ~FGeq(score, FromInt(67)))
            /\ mood = "sad" <=> ~FGeq(score, FromInt(34))
            /\ Returned(t) => /\ ResultOf(t).final_mood = mood
                              /\ ResultOf(t).final_score = score

\* a result whose score is 67 and whose mood is happy
C21_Witness ==
    \E t \in Callers :
        /\ Returned(t)
        /\ ResultOf(t).final_score = FromInt(67)
        /\ ResultOf(t).final_mood = "happy"

\* every confidence of the list is zero (so is any sum of them)
AllZero(votes) == \A i \in 1..Len(votes) : votes[i].confidence = FloatZero

\* C22: scoring cannot fail: for every list of votes the Vote Decoder can
\* produce, the empty list and the lists of zero confidences included, the
\* moods are keys of mood_values, the division is by a non-zero total, the
\* aggregator returns a (mood, score) pair, and the pair is (neutral, 50.0)
\* whenever the total confidence is zero.  (The lists are those a caller
\* holds while and after it votes, of 0 to 3 votes.)
C22_ScoringCannotFail ==
    \A t \in Callers :
        LET votes == frame[t].votes
            f == _calculate_final_mood(votes)
            total_weight == SumVotes(votes, 1, [total_score |-> FloatZero,
                                                total_weight |-> FloatZero]).total_weight
        IN  /\ \A i \in 1..Len(votes) :
                   votes[i].vote_mood \in {"happy", "neutral", "sad"}
            /\ f.final_mood \in {"happy", "neutral", "sad"}
            /\ AllZero(votes) <=> total_weight = FloatZero
            /\ AllZero(votes) =>
                   f = [final_mood |-> "neutral", final_score |-> FromInt(50)]
            /\ Scored(t) => /\ frame[t].final_mood = f.final_mood
                            /\ frame[t].final_score = f.final_score
            /\ pc[t] # "raised"

\* three votes for happy of confidence 0, scored as (neutral, 50.0)
C22_Witness ==
    \E t \in Callers :
        /\ Scored(t)
        /\ Len(frame[t].votes) = 3
        /\ \A i \in 1..3 : /\ frame[t].votes[i].vote_mood = "happy"
                           /\ frame[t].votes[i].confidence = FloatZero
        /\ frame[t].final_mood = "neutral"
        /\ frame[t].final_score = FromInt(50)

\* the positions of the moderator turns, and of the expert turns, that a
\* transcript tags with round r
ModeratorTurns(list, r) ==
    {i \in 1..Len(list) : list[i].speaker = "Moderator" /\ list[i].round_number = r}

ExpertTurns(list, r) ==
    {i \in 1..Len(list) : list[i].speaker # "Moderator" /\ list[i].round_number = r}

\* round r has one moderator turn, and it stands before the round's expert
\* turns
OneModeratorTurnFirst(list, r) ==
    /\ Cardinality(ModeratorTurns(list, r)) = 1
    /\ \A i \in ModeratorTurns(list, r) : \A j \in ExpertTurns(list, r) : i < j

\* the round caller t is about to call an expert of
RoundOfExpertCall(t) ==
    IF pc[t] = "round1_expert" THEN 1 ELSE frame[t].round_num

\* C23: in every executed round r (round 1 and every debate round) exactly
\* one moderator turn tagged with round r is appended, and it is appended
\* before any expert of that round is called, so it precedes in the
\* transcript every expert turn tagged with round r.
C23_ModeratorTurnOpensRound ==
    \A t \in Callers :
        /\ pc[t] \in {"round1_expert", "debate_expert"} =>
               OneModeratorTurnFirst(heap[transcripts], RoundOfExpertCall(t))
        /\ pc[t] \notin {"idle", "raised"} =>
               \A k \in 1..Len(heap[transcripts]) :
                   heap[transcripts][k].round_number # NoRound =>
                       OneModeratorTurnFirst(heap[transcripts],
                                             heap[transcripts][k].round_number)
        /\ Returned(t) =>
               \A r \in 1..ResultOf(t).debate_rounds :
                   OneModeratorTurnFirst(ResultTranscripts(t), r)

\* a result of two rounds: the second has one moderator turn and an expert
\* turn after it
C23_Witness ==
    \E t \in Callers :
        /\ Returned(t)
        /\ ResultOf(t).debate_rounds = 2
        /\ OneModeratorTurnFirst(ResultTranscripts(t), 2)
        /\ ExpertTurns(ResultTranscripts(t), 2) # {}

\* the round_number of the turn appended last, by the position of the
\* caller: None after a phase turn, the round after a turn of a round
TagOfLastTurn(t) ==
    CASE pc[t] \in {"round1_moderator", "vote", "scoring", "conclude", "done"} -> NoRound
      [] pc[t] = "round1_expert" -> 1
      [] pc[t] = "debate_expert" -> frame[t].round_num
      [] pc[t] \in {"loop", "debate_moderator", "voting"} -> frame[t].round_num - 1

\* the turns of a result: the introduction, the turns of the rounds, the
\* voting call, a vote statement per expert, the conclusion; the first and
\* the last 2 + Len(expert_roles) are the turns without a round
ResultTags(res, list) ==
    LET n == Len(list)
        call_at == n - Len(expert_roles) - 1
    IN  /\ n >= Len(expert_roles) + 3
        /\ \A i \in 1..n :
               list[i].round_number = NoRound <=> (i = 1 \/ i >= call_at)
        /\ list[1].speaker = "Moderator" /\ list[1].content = res.introduction
        /\ list[call_at].speaker = "Moderator"
        /\ list[call_at].content = moderator_call
        /\ \A k \in 1..Len(expert_roles) :
               /\ list[call_at + k].speaker = expert_roles[k]
               /\ SubSeq(list[call_at + k].content, 1, 3)
                      = VoteStatementOpening(res.votes[k])
        /\ list[n].speaker = "Moderator" /\ list[n].content = res.conclusion
        /\ \A i \in 2..(call_at - 1) :
               list[i].round_number \in 1..res.debate_rounds
        /\ \A i, j \in 2..(call_at - 1) :
               i < j => list[i].round_number <= list[j].round_number

\* C24: in every result a transcript turn has round_number None exactly
\* when it is the introduction, the voting call, a vote statement or the
\* conclusion; every other turn carries the number of the round in which
\* it was produced, and the round numbers of the tagged turns are
\* non-decreasing in transcript order.
C24_RoundTags ==
    \A t \in Callers :
        /\ pc[t] \notin {"idle", "introduce", "raised"} =>
               heap[transcripts][Len(heap[transcripts])].round_number = TagOfLastTurn(t)
        /\ Returned(t) => ResultTags(ResultOf(t), ResultTranscripts(t))

\* a result of three rounds, whose tagged turns go from round 1 to round 3
C24_Witness ==
    \E t \in Callers :
        /\ Returned(t)
        /\ ResultOf(t).debate_rounds = 3
        /\ ResultTranscripts(t)[2].round_number = 1
        /\ \E i \in 1..Len(ResultTranscripts(t)) :
               ResultTranscripts(t)[i].round_number = 3

\* the expert turns of a transcript that carry a round number
TaggedExpertTurns(list) ==
    SelectSeq(list, LAMBDA turn : /\ turn.speaker # "Moderator"
                                  /\ turn.round_number # NoRound)

\* the analyses are the tagged expert turns, one to one and in order; no
\* round has two analyses of one expert; round 1 has the roster's
AnalysesMatchTurns(list, entries) ==
    LET turns == TaggedExpertTurns(list)
        first == SelectSeq(entries, LAMBDA a : a.round_number = 1)
    IN  /\ Len(entries) = Len(turns)
        /\ \A i \in 1..Len(entries) :
               /\ entries[i].expert_role = turns[i].speaker
               /\ entries[i].analysis_text = turns[i].content
               /\ entries[i].round_number = turns[i].round_number
        /\ \A i, j \in 1..Len(entries) :
               ( /\ entries[i].round_number = entries[j].round_number
                 /\ entries[i].expert_role = entries[j].expert_role ) => i = j
        /\ Len(first) <= Len(expert_roles)
        /\ \A i \in 1..Len(first) : first[i].expert_role = expert_roles[i]

\* C25: the analyses of a result correspond one to one, in the same order,
\* to the expert turns of the transcript that carry a round number (same
\* role, same text, same round); for every round and every expert there is
\* at most one Analysis, and round 1 has exactly one Analysis per roster
\* expert, in roster order.
C25_AnalysesMatchTurns ==
    \A t \in Callers :
        /\ pc[t] \notin {"idle", "raised"} =>
               AnalysesMatchTurns(heap[transcripts], heap[analyses])
        /\ pc[t] \notin {"idle", "raised", "introduce", "round1_moderator",
                         "round1_expert"} =>
               Len(SelectSeq(heap[analyses], LAMBDA a : a.round_number = 1))
                   = Len(expert_roles)
        /\ Returned(t) =>
               /\ AnalysesMatchTurns(ResultTranscripts(t), ResultAnalyses(t))
               /\ Len(SelectSeq(ResultAnalyses(t), LAMBDA a : a.round_number = 1))
                      = Len(expert_roles)

\* a result with an analysis of round 2 whose text is the sentinel of a
\* failed completion, as is the turn it belongs to
C25_Witness ==
    \E t \in Callers :
        /\ Returned(t)
        /\ \E i \in 1..Len(ResultAnalyses(t)) :
               /\ ResultAnalyses(t)[i].round_number = 2
               /\ ResultAnalyses(t)[i].analysis_text
                      = ErrorSentinel(ResultAnalyses(t)[i].expert_role)
               /\ TaggedExpertTurns(ResultTranscripts(t))[i].content
                      = ErrorSentinel(ResultAnalyses(t)[i].expert_role)

\* the experts that responded in round r, in the order of their turns
RespondentsOf(list, r) ==
    LET turns == SelectSeq(list, LAMBDA turn : /\ turn.speaker # "Moderator"
                                               /\ turn.round_number = r)
    IN  [i \in 1..Len(turns) |-> turns[i].speaker]

\* the experts a debate round asks: the targets of the decision, or the
\* roster when the decision names nobody
AskedFor(target_experts) ==
    IF target_experts = <<>> THEN expert_roles ELSE target_experts

\* a debate round starts with the targets of the decision taken before it,
\* and keeps them
TargetStep ==
    \A t \in Callers :
        /\ (pc[t] = "debate_moderator" /\ pc'[t] = "debate_expert") =>
               frame'[t].target_experts = AskedFor(frame[t].target_experts)
        /\ (pc[t] = "debate_expert" /\ pc'[t] \in {"debate_expert", "loop"}) =>
               frame'[t].target_experts = frame[t].target_experts

\* the decision is the decoded one; the experts that responded in the round
\* under way are the targets asked so far, and those of the round just
\* over are the targets, each once
RespondentsAreTargets ==
    \A t \in Callers :
        LET targets == frame[t].target_experts IN
        /\ pc[t] = "debate_moderator" =>
               /\ frame[t].should_continue
               /\ targets = DecodeFollowup(call[t].reply).target_experts
        /\ pc[t] = "debate_expert" =>
               /\ targets # <<>>
               /\ \A i, j \in 1..Len(targets) : targets[i] = targets[j] => i = j
               /\ RespondentsOf(heap[transcripts], frame[t].round_num)
                      = SubSeq(targets, 1, frame[t].idx - 1)
        /\ (pc[t] = "loop" /\ frame[t].round_num > 2) =>
               RespondentsOf(heap[transcripts], frame[t].round_num - 1) = targets

\* C26: in a debate round exactly the experts of the routing decision's
\* target set respond, each once; when the decision is continue = true
\* with an empty target set (no Target Experts line, or no token matches a
\* role) the empty set means all experts, so every roster expert responds
\* in that round.
C26_TargetsRespond == [][TargetStep]_vars /\ []RespondentsAreTargets

\* a debate round after the decision of "Continue: Yes" without a Target
\* Experts line: the three roster experts responded
C26_Witness ==
    \E t \in Callers :
        /\ completions.route = {RouteBare}
        /\ pc[t] = "loop"
        /\ frame[t].round_num = 3
        /\ RespondentsOf(heap[transcripts], 2) = expert_roles

\* a step in which caller t takes a routing decision
DecisionTaken(t) ==
    /\ pc[t] = "loop"
    /\ Len(frame'[t].decisions) = Len(frame[t].decisions) + 1

\* taking a decision asks the moderator and changes nothing that is kept
DecisionStep ==
    \A t \in Callers : DecisionTaken(t) =>
        /\ call'[t].to = "Moderator"
        /\ call'[t].recent = _get_recent_discussion(heap[transcripts], 12)
        /\ UNCHANGED <<transcripts, analyses, turn_order, heap, result>>

\* the texts of a result: those of its turns and analyses, its
\* introduction and conclusion, and the reasonings of its votes
TextsOf(res, list, entries) ==
    {list[i].content : i \in 1..Len(list)}
    \cup {entries[i].analysis_text : i \in 1..Len(entries)}
    \cup {res.votes[i].reasoning : i \in 1..Len(res.votes)}
    \cup {res.introduction, res.conclusion}

\* no text of a result is a routing response of the moderator, and neither
\* is a turn or an analysis kept so far
NoRoutingText ==
    /\ \A i \in 1..Len(heap[transcripts]) :
           heap[transcripts][i].content \notin completions.route
    /\ \A i \in 1..Len(heap[analyses]) :
           heap[analyses][i].analysis_text \notin completions.route
    /\ \A t \in Callers : Returned(t) =>
           /\ TextsOf(ResultOf(t), ResultTranscripts(t), ResultAnalyses(t))
                  \cap completions.route = {}
           /\ ResultOf(t).total_turns = Len(ResultTranscripts(t))

\* C27: a routing decision is ephemeral: taking it (the moderator call and
\* the decoding in _moderator_decide_followup) leaves the transcript, the
\* analyses and the turn counter unchanged, and the moderator's routing
\* response never appears in the result.
C27_DecisionIsEphemeral == [][DecisionStep]_vars /\ []NoRoutingText

\* a result of a discussion in which four decisions to continue with two
\* named experts were taken
C27_Witness ==
    \E t \in Callers :
        /\ Returned(t)
        /\ completions.route = {RouteTwo}
        /\ frame[t].decisions = <<TRUE, TRUE, TRUE, TRUE>>
        /\ RouteTwo \notin
               TextsOf(ResultOf(t), ResultTranscripts(t), ResultAnalyses(t))

\* the response has no line that the decoder takes for a Continue line
NoContinueLine(response) == LinesLabelled(response, ContinueLabel) = <<>>

\* the decision of caller t stopped the debate: the call is at Voting, and
\* a stop at the first decision point leaves one round
StoppedAtDecision(t) ==
    /\ ~frame[t].should_continue
    /\ pc[t] = "voting"
    /\ frame[t].actual_rounds = frame[t].round_num - 1
    /\ Len(frame[t].decisions) = 1 => frame[t].actual_rounds = 1

\* C28 as stated: a routing response that has no Continue line, in
\* particular the failure sentinel of a failed routing call, decodes to
\* continue = false with no targets, so the run leaves the debate loop at
\* that decision point and goes to Voting (a failure at the first decision
\* point gives debate_rounds = 1).
C28_NoContinueLineStops ==
    \A t \in Callers :
        (RouteDecoded(t) /\ NoContinueLine(call[t].reply)) =>
            /\ frame[t].target_experts = <<>>
            /\ StoppedAtDecision(t)

\* C28 amended: a routing response that has no Continue line decodes to
\* continue = false, and to no targets when it has no Target Experts line
\* either, as the failure sentinel; the run leaves the debate loop at that
\* decision point and goes to Voting (a failure at the first decision point
\* gives debate_rounds = 1).
C28_NoContinueLineStopsDebate ==
    \A t \in Callers :
        /\ (RouteDecoded(t) /\ NoContinueLine(call[t].reply)) =>
               /\ TargetLines(call[t].reply) = <<>> =>
                      frame[t].target_experts = <<>>
               /\ StoppedAtDecision(t)
        /\ (Returned(t) /\ frame[t].decisions = <<FALSE>>) =>
               ResultOf(t).debate_rounds = 1

\* the first routing call failed: the sentinel was decoded and the call is
\* at Voting after one round
C28_Witness ==
    \E t \in Callers :
        /\ RouteDecoded(t)
        /\ call[t].reply = ErrorSentinel("Moderator")
        /\ frame[t].decisions = <<FALSE>>
        /\ pc[t] = "voting"
        /\ frame[t].actual_rounds = 1

\* the number of turns of a transcript that satisfy a test
CountTurns(list, Test(_)) == Len(SelectSeq(list, Test))

\* C29: for every result, total_turns = 3 + (number of roster experts) +
\* debate_rounds + (number of analyses): one introduction, one moderator
\* turn per executed round, one turn per analysis, one voting call, one
\* vote statement per expert and one conclusion, and nothing else; with
\* the roster of 3 experts the minimum is 10 turns.
C29_TotalTurns ==
    \A t \in Callers : Returned(t) =>
        LET res == ResultOf(t)
            list == ResultTranscripts(t)
            n == Len(expert_roles)
        IN  /\ res.total_turns = 3 + n + res.debate_rounds + Len(ResultAnalyses(t))
            /\ res.total_turns = Len(list)
            /\ res.total_turns >= 10
            /\ CountTurns(list, LAMBDA turn : /\ turn.speaker = "Moderator"
                                              /\ turn.round_number = NoRound) = 3
            /\ CountTurns(list, LAMBDA turn : /\ turn.speaker # "Moderator"
                                              /\ turn.round_number = NoRound) = n
            /\ CountTurns(list, LAMBDA turn : /\ turn.speaker = "Moderator"
                                              /\ turn.round_number # NoRound)
                   = res.debate_rounds
            /\ CountTurns(list, LAMBDA turn : /\ turn.speaker # "Moderator"
                                              /\ turn.round_number # NoRound)
                   = Len(ResultAnalyses(t))

\* a result of two rounds, the second with two experts: 13 turns
C29_Witness ==
    \E t \in Callers :
        /\ Returned(t)
        /\ ResultOf(t).debate_rounds = 2
        /\ Len(ResultAnalyses(t)) = 5
        /\ ResultOf(t).total_turns = 13

\* the last respond call of caller t was the prompt of a voter
VoterCalled(t) == pc[t] \in {"vote", "scoring"} /\ frame[t].votes # <<>>

\* the last respond call of caller t was the prompt of an expert of a
\* debate round
DebaterCalled(t) ==
    \/ pc[t] = "debate_expert" /\ frame[t].idx > 1
    \/ pc[t] = "loop" /\ frame[t].round_num > 2

\* the transcript as it was when the voting call had just been appended:
\* without the vote statements appended since
UpToVotingCall(t) ==
    SubSeq(heap[transcripts], 1, Len(heap[transcripts]) - Len(frame[t].votes))

\* the transcript as it was when the last expert was prompted: without the
\* turn of its reply
BeforeLastTurn == SubSeq(heap[transcripts], 1, Len(heap[transcripts]) - 1)

\* the round and the place in the target list of the expert prompted last
\* in a debate round
LastDebateRound(t) ==
    IF pc[t] = "loop" THEN frame[t].round_num - 1 ELSE frame[t].round_num

LastDebaterIndex(t) ==
    IF pc[t] = "loop" THEN Len(frame[t].target_experts) ELSE frame[t].idx - 1

\* C30: in the voting phase all experts are prompted with the same context
\* snapshot, the last 15 transcript turns taken once right after the
\* voting call: the prompt of a later voter does not depend on the
\* responses or vote statements of the voters before it; whereas in a
\* debate round the context window is taken anew for each expert and holds
\* the turns of the experts that already answered in that round.
C30_VotersShareSnapshot ==
    \A t \in Callers :
        /\ VoterCalled(t) =>
               /\ call[t].to = expert_roles[Len(frame[t].votes)]
               /\ call[t].recent = frame[t].recent_discussion
               /\ call[t].recent = _get_recent_discussion(UpToVotingCall(t), 15)
               /\ UpToVotingCall(t)[Len(UpToVotingCall(t))].content = moderator_call
        /\ DebaterCalled(t) =>
               /\ call[t].to = frame[t].target_experts[LastDebaterIndex(t)]
               /\ call[t].recent = _get_recent_discussion(BeforeLastTurn, 8)
               /\ \A i \in 1..(LastDebaterIndex(t) - 1) :
                      \E k \in 1..Len(RecentTurns(BeforeLastTurn, 8)) :
                          LET turn == RecentTurns(BeforeLastTurn, 8)[k] IN
                          /\ turn.speaker = frame[t].target_experts[i]
                          /\ turn.round_number = LastDebateRound(t)

\* the third voter was prompted after two voters voted differently: its
\* context is the snapshot, not what the transcript then gave
C30_Witness ==
    \E t \in Callers :
        /\ VoterCalled(t)
        /\ Len(frame[t].votes) = 3
        /\ frame[t].votes[1].vote_mood # frame[t].votes[2].vote_mood
        /\ call[t].recent = frame[t].recent_discussion
        /\ call[t].recent # _get_recent_discussion(BeforeLastTurn, 15)

=============================================================================
